---- MODULE Spec2Model ----
(***************************************************************************)
(* AMB <-> Nostr converter: the flattener ambToNostr                       *)
(* (src/src/converters/ambToNostr.ts) and the unflattener nostrToAmb       *)
(* (src/unnamed/part_002, the converters/nostrToAmb module).               *)
(*                                                                         *)
(* Representation.                                                         *)
(*   - A typed AMB resource (AmbLearningResource) is a record whose        *)
(*     domain holds the fields that are present; a list is a sequence, a   *)
(*     prefLabel mapping is a sequence of <<lang, label>> pairs in         *)
(*     Object.entries order.                                               *)
(*   - A tag key is the sequence of its colon-separated segments           *)
(*     ("about:prefLabel:en" is <<"about", "prefLabel", "en">>), so that   *)
(*     key.split(':') is the key itself and the empty key is <<"">>.       *)
(*     A tag is a sequence whose first element is a key and whose other    *)
(*     elements are strings.                                               *)
(*   - A dynamically typed JavaScript value (the objects built by the      *)
(*     unflattener, and event.tags as received) is a tagged tuple:         *)
(*     <<"str", s>>, <<"arr", seq>>, <<"obj", map>> or <<"undef">>.        *)
(***************************************************************************)
EXTENDS Integers, Sequences, FiniteSets, TLC

VARIABLES
  ambResource,   \* argument of ambToNostr
  options,       \* argument of ambToNostr (ConversionOptions)
  now,           \* Math.floor(Date.now() / 1000) at the time of the call
  flat,          \* ConversionResult<NostrEducationalEvent> of ambToNostr
  event,         \* argument of nostrToAmb
  unflatOptions, \* argument of nostrToAmb ({ defaultLanguage? })
  unflat,        \* ConversionResult<AmbLearningResource> of nostrToAmb
  pc,            \* position of the caller: "start", "flattened", "done"
  cli,           \* a run of the convert command (src/cli/commands/convert.ts)
  scan           \* a run of the loop of reconstructNestedObjects

vars ==
  <<ambResource, options, now, flat, event, unflatOptions, unflat, pc, cli,
    scan>>

----------------------------------------------------------------------------
(* Generic helpers                                                         *)

Has(r, f) == f \in DOMAIN r

\* JavaScript truthiness of a string field that may be absent
Truthy(r, f) == Has(r, f) /\ r[f] # ""

Restrict(r, S) == [k \in S \cap DOMAIN r |-> r[k]]

RECURSIVE Concat(_)
Concat(ss) == IF ss = <<>> THEN <<>> ELSE Head(ss) \o Concat(Tail(ss))

JStr(s) == <<"str", s>>
JArr(a) == <<"arr", a>>
JObj(m) == <<"obj", m>>
Undefined == <<"undef">>

IsArray(v) == v[1] = "arr"

\* JavaScript truthiness of a tagged value
JTruthy(v) ==
  CASE v[1] = "undef" -> FALSE
    [] v[1] = "str" -> v[2] # ""
    [] OTHER -> TRUE

----------------------------------------------------------------------------
(* Constants of the program                                                *)

DEFAULT_PUBKEY ==
  "0000000000000000000000000000000000000000000000000000000000000000"

NostrEducationalKind_AMB == 30142

ConversionError(message, code) ==
  [name |-> "ConversionError", message |-> message, code |-> code]

\* String.prototype.toLowerCase on the strings of the model
toLowerCase(s) ==
  CASE s = "B" -> "b"
    [] s = "Math" -> "math"
    [] OTHER -> s

createTag(type, value) == <<type, value>>

----------------------------------------------------------------------------
(* ambToNostr: the tag blocks, in the order the code pushes them           *)

getPersonOrOrgName(entity) ==
  IF Truthy(entity, "honorificPrefix")
  THEN entity.honorificPrefix \o " " \o entity.name
  ELSE entity.name

TypeTags(r) ==
  [i \in 1..Len(r.type) |-> createTag(<<"type">>, r.type[i])]

DescriptionTags(r) ==
  IF Truthy(r, "description")
  THEN <<createTag(<<"description">>, r.description)>> ELSE <<>>

\* the keyword tags without the lower-casing
KeywordTags_NoLowerCase(r) ==
  IF Has(r, "keywords")
  THEN [i \in 1..Len(r.keywords) |-> createTag(<<"t">>, r.keywords[i])]
  ELSE <<>>

KeywordTags(r) ==
  IF Has(r, "keywords")
  THEN [i \in 1..Len(r.keywords) |->
          createTag(<<"t">>, toLowerCase(r.keywords[i]))]
  ELSE <<>>

LanguageTags(r) ==
  IF Has(r, "inLanguage")
  THEN [i \in 1..Len(r.inLanguage) |->
          createTag(<<"inLanguage">>, r.inLanguage[i])]
  ELSE <<>>

AffiliationTags(c) ==
  IF Has(c, "affiliation")
  THEN (IF Truthy(c.affiliation, "name")
        THEN <<createTag(<<"creator", "affiliation", "name">>,
                         c.affiliation.name)>> ELSE <<>>)
       \o (IF Truthy(c.affiliation, "type")
           THEN <<createTag(<<"creator", "affiliation", "type">>,
                            c.affiliation.type)>> ELSE <<>>)
       \o (IF Truthy(c.affiliation, "id")
           THEN <<createTag(<<"creator", "affiliation", "id">>,
                            c.affiliation.id)>> ELSE <<>>)
  ELSE <<>>

CreatorEntryTags(c) ==
  <<createTag(<<"creator", "name">>, getPersonOrOrgName(c)),
    createTag(<<"creator", "type">>, c.type)>>
  \o (IF Truthy(c, "id")
      THEN <<createTag(<<"creator", "id">>, c.id)>> ELSE <<>>)
  \o (IF Truthy(c, "honorificPrefix")
      THEN <<createTag(<<"creator", "honorificPrefix">>, c.honorificPrefix)>>
      ELSE <<>>)
  \o AffiliationTags(c)

CreatorTags(r) ==
  IF Has(r, "creator")
  THEN Concat([i \in 1..Len(r.creator) |-> CreatorEntryTags(r.creator[i])])
  ELSE <<>>

PublisherEntryTags(p) ==
  <<createTag(<<"publisher", "name">>, getPersonOrOrgName(p)),
    createTag(<<"publisher", "type">>, p.type)>>
  \o (IF Truthy(p, "id")
      THEN <<createTag(<<"publisher", "id">>, p.id)>> ELSE <<>>)

PublisherTags(r) ==
  IF Has(r, "publisher")
  THEN Concat([i \in 1..Len(r.publisher) |->
                 PublisherEntryTags(r.publisher[i])])
  ELSE <<>>

LicenseTags(r) ==
  IF Has(r, "license") /\ Truthy(r.license, "id")
  THEN <<createTag(<<"license", "id">>, r.license.id)>> ELSE <<>>

\* Boolean.prototype.toString
BoolToString(b) == IF b THEN "true" ELSE "false"

AccessTags(r) ==
  IF Has(r, "isAccessibleForFree")
  THEN <<createTag(<<"isAccessibleForFree">>,
                   BoolToString(r.isAccessibleForFree))>>
  ELSE <<>>

\* one Concept with the type tag pushed before the labels
ConceptEntryTags_TypeFirst(base, c) ==
  (IF Truthy(c, "id")
   THEN <<createTag(<<base, "id">>, c.id)>> ELSE <<>>)
  \o (IF Truthy(c, "type")
      THEN <<createTag(<<base, "type">>, c.type)>> ELSE <<>>)
  \o (IF Has(c, "prefLabel")
      THEN [i \in 1..Len(c.prefLabel) |->
              createTag(<<base, "prefLabel", c.prefLabel[i][1]>>,
                        c.prefLabel[i][2])]
      ELSE <<>>)

\* One Concept: id, then one prefLabel:<lang> tag per entry, then type
ConceptEntryTags(base, c) ==
  (IF Truthy(c, "id")
   THEN <<createTag(<<base, "id">>, c.id)>> ELSE <<>>)
  \o (IF Has(c, "prefLabel")
      THEN [i \in 1..Len(c.prefLabel) |->
              createTag(<<base, "prefLabel", c.prefLabel[i][1]>>,
                        c.prefLabel[i][2])]
      ELSE <<>>)
  \o (IF Truthy(c, "type")
      THEN <<createTag(<<base, "type">>, c.type)>> ELSE <<>>)

ConditionsOfAccessTags(r) ==
  IF Has(r, "conditionsOfAccess")
  THEN ConceptEntryTags("conditionsOfAccess", r.conditionsOfAccess)
  ELSE <<>>

ConceptListTags(r, base) ==
  IF Has(r, base)
  THEN Concat([i \in 1..Len(r[base]) |-> ConceptEntryTags(base, r[base][i])])
  ELSE <<>>

DatePublishedTags(r) ==
  IF Truthy(r, "datePublished")
  THEN <<createTag(<<"datePublished">>, r.datePublished)>> ELSE <<>>

DateCreatedTags(r) ==
  IF Truthy(r, "dateCreated")
  THEN <<createTag(<<"dateCreated">>, r.dateCreated)>> ELSE <<>>

ImageTags(r) ==
  IF Truthy(r, "image")
  THEN <<createTag(<<"image">>, r.image)>> ELSE <<>>

RelayHintTags(o) ==
  IF Has(o, "relayHints")
  THEN [i \in 1..Len(o.relayHints) |-> createTag(<<"r">>, o.relayHints[i])]
  ELSE <<>>

\* hasPart / isPartOf entry: id, optional name, one type tag per type
PartEntryTags(base, p) ==
  <<createTag(<<base, "id">>, p.id)>>
  \o (IF Truthy(p, "name")
      THEN <<createTag(<<base, "name">>, p.name)>> ELSE <<>>)
  \o (IF Has(p, "type")
      THEN [i \in 1..Len(p.type) |-> createTag(<<base, "type">>, p.type[i])]
      ELSE <<>>)

PartListTags(r, base) ==
  IF Has(r, base)
  THEN Concat([i \in 1..Len(r[base]) |-> PartEntryTags(base, r[base][i])])
  ELSE <<>>

BasedOnEntryTags(s) ==
  <<createTag(<<"isBasedOn", "id">>, s.id)>>
  \o (IF Truthy(s, "name")
      THEN <<createTag(<<"isBasedOn", "name">>, s.name)>> ELSE <<>>)

BasedOnTags(r) ==
  IF Has(r, "isBasedOn")
  THEN Concat([i \in 1..Len(r.isBasedOn) |->
                 BasedOnEntryTags(r.isBasedOn[i])])
  ELSE <<>>

\* options.includeRelationships === true
IncludeRelationships_OnlyTrue(o) ==
  Has(o, "includeRelationships") /\ o.includeRelationships = TRUE

\* options.includeRelationships !== false
IncludeRelationships(o) ==
  ~(Has(o, "includeRelationships") /\ o.includeRelationships = FALSE)

RelationshipTags(r, o) ==
  IF IncludeRelationships(o)
  THEN PartListTags(r, "hasPart") \o PartListTags(r, "isPartOf")
       \o BasedOnTags(r)
  ELSE <<>>

BuildTags(r, o) ==
  <<createTag(<<"d">>, r.id)>>
  \o TypeTags(r)
  \o <<createTag(<<"name">>, r.name)>>
  \o DescriptionTags(r)
  \o KeywordTags(r)
  \o LanguageTags(r)
  \o CreatorTags(r)
  \o PublisherTags(r)
  \o LicenseTags(r)
  \o AccessTags(r)
  \o ConditionsOfAccessTags(r)
  \o ConceptListTags(r, "about")
  \o ConceptListTags(r, "educationalLevel")
  \o ConceptListTags(r, "audience")
  \o ConceptListTags(r, "learningResourceType")
  \o DatePublishedTags(r)
  \o DateCreatedTags(r)
  \o ImageTags(r)
  \o RelayHintTags(o)
  \o RelationshipTags(r, o)

\* options.pubkey || DEFAULT_PUBKEY
PubkeyOf(o) == IF Truthy(o, "pubkey") THEN o.pubkey ELSE DEFAULT_PUBKEY

\* no warning is collected
Warnings_None(o) == <<>>

Warnings(o) ==
  IF PubkeyOf(o) = DEFAULT_PUBKEY
  THEN <<"Using default pubkey - should provide a real pubkey in production">>
  ELSE <<>>

\* options.timestamp || Math.floor(Date.now() / 1000)
CreatedAt(o, clock) ==
  IF Has(o, "timestamp") /\ o.timestamp # 0 THEN o.timestamp ELSE clock

\* the event with a JSON document as content
MakeEvent_JsonContent(pubkey, created_at, kind, tags) ==
  [pubkey |-> pubkey, created_at |-> created_at, kind |-> kind,
   tags |-> JArr(tags), content |-> "{}"]

MakeEvent(pubkey, created_at, kind, tags) ==
  [pubkey |-> pubkey, created_at |-> created_at, kind |-> kind,
   tags |-> JArr(tags), content |-> ""]

Failure(error) == [success |-> FALSE, error |-> error]

\* null (or undefined) passed where an object is expected
Null == [null |-> TRUE]

IsNull(v) == Has(v, "null")

\* an Error that is not a ConversionError
TypeError(message) == [name |-> "TypeError", message |-> message]

\* a catch block that lets every other error leave the function
CatchFlatten_Rethrow(error) ==
  IF error.name = "ConversionError" THEN Failure(error)
  ELSE [escaped |-> error]

\* the catch block of ambToNostr
CatchFlatten(error) ==
  IF error.name = "ConversionError" THEN Failure(error)
  ELSE Failure(ConversionError("Conversion failed: " \o error.message,
                               "CONVERSION_FAILED"))

\* `'honorificPrefix' in entity` on an entry that is null
ThrowsInTags(r) ==
  \E f \in {"creator", "publisher"} :
    Has(r, f) /\ \E i \in 1..Len(r[f]) : IsNull(r[f][i])

SuccessResult(data, warnings) ==
  IF Len(warnings) > 0
  THEN [success |-> TRUE, data |-> data, warnings |-> warnings]
  ELSE [success |-> TRUE, data |-> data]

\* ambToNostr with the two validations in the other order
ambToNostr_NameFirst(r, o, clock) ==
  IF ~Truthy(r, "name")
  THEN Failure(ConversionError("AMB resource must have a name",
                               "MISSING_REQUIRED_FIELD"))
  ELSE IF ~Truthy(r, "id")
  THEN Failure(ConversionError("AMB resource must have an id",
                               "MISSING_REQUIRED_FIELD"))
  ELSE SuccessResult(MakeEvent(PubkeyOf(o), CreatedAt(o, clock),
                               NostrEducationalKind_AMB, BuildTags(r, o)),
                     Warnings(o))

ambToNostr(r, o, clock) ==
  IF IsNull(r)
  THEN CatchFlatten(TypeError(
         "Cannot read properties of null (reading 'id')"))
  ELSE IF ~Truthy(r, "id")
  THEN CatchFlatten(ConversionError("AMB resource must have an id",
                                    "MISSING_REQUIRED_FIELD"))
  ELSE IF ~Truthy(r, "name")
  THEN CatchFlatten(ConversionError("AMB resource must have a name",
                                    "MISSING_REQUIRED_FIELD"))
  ELSE IF IsNull(o)
  THEN CatchFlatten(TypeError(
         "Cannot read properties of null (reading 'pubkey')"))
  ELSE IF ThrowsInTags(r)
  THEN CatchFlatten(TypeError(
         "Cannot use 'in' operator to search for 'honorificPrefix' in null"))
  ELSE SuccessResult(MakeEvent(PubkeyOf(o), CreatedAt(o, clock),
                               NostrEducationalKind_AMB, BuildTags(r, o)),
                     Warnings(o))

----------------------------------------------------------------------------
(* nostrToAmb: reconstructNestedObjects                                    *)
(*                                                                         *)
(* An object under construction is a map from property names to            *)
(* <<"str", s>> or <<"obj", map>>.  The loop state is the list of finished *)
(* objects, the current object, and whether a TypeError was thrown (the    *)
(* module is strict-mode code, so creating a property on a string          *)
(* primitive throws).                                                      *)

EmptyObject == <<>>

\* parts[1 .. length-2] of the code (0-based), without the empty segments
\* that `if (part)` skips
NavParts(parts) ==
  SelectSeq(SubSeq(parts, 2, Len(parts) - 1), LAMBDA p : p # "")

\* the navigation loop without the `if (!target[part])` test: every
\* object on the way is created anew
RECURSIVE Navigate_Fresh(_, _)
Navigate_Fresh(m, path) ==
  IF path = <<>> THEN [ok |-> TRUE, obj |-> m]
  ELSE [ok |-> TRUE,
        obj |-> (Head(path) :> JObj(Navigate_Fresh(EmptyObject,
                                                   Tail(path)).obj)) @@ m]

\* The navigation loop: creates the missing objects on the way; ok is FALSE
\* when the walk steps into a string value (every later write then throws)
RECURSIVE Navigate(_, _)
Navigate(m, path) ==
  IF path = <<>> THEN [ok |-> TRUE, obj |-> m]
  ELSE LET p == Head(path) IN
       IF p \notin DOMAIN m
       THEN [ok |-> TRUE,
             obj |-> m @@ (p :> JObj(Navigate(EmptyObject, Tail(path)).obj))]
       ELSE IF m[p][1] = "obj"
       THEN LET sub == Navigate(m[p][2], Tail(path)) IN
            [ok |-> sub.ok, obj |-> [m EXCEPT ![p] = JObj(sub.obj)]]
       ELSE [ok |-> FALSE, obj |-> m]

\* the object `target` refers to after a successful navigation
RECURSIVE TargetAt(_, _)
TargetAt(m, path) ==
  IF path = <<>> THEN m ELSE TargetAt(m[Head(path)][2], Tail(path))

\* target[k] = v
RECURSIVE WriteAt(_, _, _, _)
WriteAt(m, path, k, v) ==
  IF path = <<>> THEN (k :> v) @@ m
  ELSE [m EXCEPT ![Head(path)] =
          JObj(WriteAt(m[Head(path)][2], Tail(path), k, v))]

\* tags.find(...) of the prefLabel case: the first index among
\* currentIndex-1, currentIndex, currentIndex+1 whose key is
\* <parent path>:inLanguage; 0 when there is none
LangTagIndex(tags, currentIndex, parts) ==
  LET wanted == SubSeq(parts, 1, Len(parts) - 1) \o <<"inLanguage">>
      hits == {idx \in 1..Len(tags) :
                 /\ tags[idx].key = wanted
                 /\ idx > currentIndex - 2
                 /\ idx < currentIndex + 2}
  IN IF hits = {} THEN 0
     ELSE CHOOSE idx \in hits : \A other \in hits : idx <= other

PrefLabelValue(tags, currentIndex, parts, value) ==
  LET li == LangTagIndex(tags, currentIndex, parts) IN
  IF li # 0 /\ tags[li].values[1] # ""
  THEN JObj(tags[li].values[1] :> JStr(value))
  ELSE JStr(value)

\* the boundary detection that looks for the property on the current
\* object itself, not on the navigated target
ShouldStartNewObject_OnRoot(cur, path, finalKey) ==
  /\ DOMAIN cur # {}
  /\ finalKey \in DOMAIN cur

\* the boundary detection with its first tier only: the id comes again
ShouldStartNewObject_IdOnly(cur, path, finalKey) ==
  /\ DOMAIN cur # {}
  /\ finalKey = "id"
  /\ "id" \in DOMAIN TargetAt(cur, path)

\* target.hasOwnProperty(finalKey) with a non-empty current object
ShouldStartNewObject(cur, path, finalKey) ==
  /\ DOMAIN cur # {}
  /\ finalKey \in DOMAIN TargetAt(cur, path)

\* One iteration of the for loop over the collected tags
LoopStep(st, tags, i) ==
  LET parts == tags[i].key
      finalKey == parts[Len(parts)]
      value == tags[i].values[1]
      path == NavParts(parts)
      nav == Navigate(st.cur, path)
  IN
  IF st.thrown \/ finalKey = "" \/ value = "" THEN st
  ELSE IF ~nav.ok THEN [st EXCEPT !.thrown = TRUE]
  ELSE
    LET boundary == ShouldStartNewObject(nav.obj, path, finalKey)
        objects == IF boundary THEN Append(st.objects, nav.obj)
                   ELSE st.objects
        cur == IF boundary THEN Navigate(EmptyObject, path).obj ELSE nav.obj
    IN
    IF finalKey = "prefLabel"
    THEN [objects |-> objects, thrown |-> FALSE,
          cur |-> WriteAt(cur, path, finalKey,
                          PrefLabelValue(tags, i, parts, value))]
    ELSE IF finalKey = "inLanguage"
            /\ "prefLabel" \in DOMAIN TargetAt(cur, path)
    THEN [objects |-> objects, thrown |-> FALSE, cur |-> cur]
    ELSE [objects |-> objects, thrown |-> FALSE,
          cur |-> WriteAt(cur, path, finalKey, JStr(value))]

\* the for loop over tags[from], ..., tags[to], in this order
RECURSIVE Loop(_, _, _, _)
Loop(st, tags, from, to) ==
  IF from > to THEN st
  ELSE IF from = to THEN LoopStep(st, tags, from)
  ELSE LET mid == (from + to) \div 2
           left == Loop(st, tags, from, mid)
       IN IF left.thrown THEN left ELSE Loop(left, tags, mid + 1, to)

\* the return without the last object
FinishObjects_DropLast(st) == st.objects

\* "Add the last object"
FinishObjects(st) ==
  IF DOMAIN st.cur # {} THEN Append(st.objects, st.cur) ELSE st.objects

\* the list of objects, whatever its length
Collapse_AlwaysList(objects) ==
  JArr([i \in 1..Len(objects) |-> JObj(objects[i])])

\* objects.length === 1 ? objects[0] : objects
Collapse(objects) ==
  IF Len(objects) = 1 THEN JObj(objects[1])
  ELSE JArr([i \in 1..Len(objects) |-> JObj(objects[i])])

\* thrown, or the returned value
reconstructNestedObjects(tags) ==
  LET st == Loop([objects |-> <<>>, cur |-> EmptyObject, thrown |-> FALSE],
                 tags, 1, Len(tags))
  IN IF st.thrown THEN [thrown |-> TRUE]
     ELSE [thrown |-> FALSE, value |-> Collapse(FinishObjects(st))]

reconstructProperty(baseKey, tags) ==
  IF \A i \in 1..Len(tags) : Len(tags[i].key) = 1
  THEN [thrown |-> FALSE,
        value |-> IF Len(tags) = 1 THEN JStr(tags[1].values[1])
                  ELSE JArr([i \in 1..Len(tags) |-> JStr(tags[i].values[1])])]
  ELSE reconstructNestedObjects(tags)

----------------------------------------------------------------------------
(* nostrToAmb: unflattenTags                                               *)

AMB_CONTEXT == "https://w3id.org/kim/amb/context.jsonld"

\* the list of the always-array fields with creator forgotten
arrayFields_NoCreator ==
  {"type", "inLanguage", "about", "contributor",
   "learningResourceType", "audience", "publisher", "funder"}

arrayFields ==
  {"type", "inLanguage", "about", "creator", "contributor",
   "learningResourceType", "audience", "publisher", "funder"}

\* `if (!tag || tag.length < 2) continue; if (!key) continue;`
Usable(tag) == Len(tag) >= 2 /\ tag[1] # <<"">>

IsIdTag(tag) == Usable(tag) /\ tag[1] = <<"d">> /\ tag[2] # ""

IsKeywordTag(tag) == Usable(tag) /\ tag[1] = <<"t">> /\ tag[2] # ""

\* result.id after the first pass: the last d tag with a value wins
LastId(tags) ==
  LET ids == {i \in 1..Len(tags) : IsIdTag(tags[i])} IN
  IF ids = {} THEN Undefined
  ELSE JStr(tags[CHOOSE i \in ids : \A j \in ids : j <= i][2])

Keywords(tags) ==
  LET kept == SelectSeq(tags, IsKeywordTag) IN
  [i \in 1..Len(kept) |-> JStr(kept[i][2])]

\* the grouping without the `tag.length < 2` test
Grouped_AnyLength(tag) ==
  tag[1] # <<"">> /\ ~IsIdTag(tag) /\ ~IsKeywordTag(tag)

\* the tags that reach tagGroups.get(key).push(values)
Grouped(tag) == Usable(tag) /\ ~IsIdTag(tag) /\ ~IsKeywordTag(tag)

\* keys of tagGroups in insertion order: the key of each grouped tag at
\* its first occurrence
GroupKeys(tags) ==
  LET first == SelectSeq([i \in 1..Len(tags) |-> i],
                         LAMBDA i : /\ Grouped(tags[i])
                                    /\ \A j \in 1..(i - 1) :
                                         ~(Grouped(tags[j])
                                           /\ tags[j][1] = tags[i][1]))
  IN [n \in 1..Len(first) |-> tags[first[n]][1]]

\* the tags collected for one key of tagGroups, in original order
Matches(tag, key) ==
  /\ Usable(tag)
  /\ tag[1] \notin {<<"d">>, <<"t">>}
  /\ \/ tag[1] = key
     \/ Len(tag[1]) >= 2 /\ tag[1][1] = key[1]

RelatedTags(tags, key) ==
  LET kept == SelectSeq(tags, LAMBDA tag : Matches(tag, key)) IN
  [i \in 1..Len(kept) |-> [key |-> kept[i][1], values |-> Tail(kept[i])]]

FirstPass(tags, defaultLanguage) ==
  LET context == "@context" :>
                   JArr(<<JStr(AMB_CONTEXT),
                          JObj("@language" :> JStr(defaultLanguage))>>)
      withId == IF LastId(tags) = Undefined THEN context
                ELSE ("id" :> LastId(tags)) @@ context
  IN IF Keywords(tags) = <<>> THEN withId
     ELSE ("keywords" :> JArr(Keywords(tags))) @@ withId

\* One iteration of `for (const [key, valuesList] of tagGroups)`
GroupStep(st, tags, key) ==
  LET baseKey == key[1]
      related == RelatedTags(tags, key)
      prop == reconstructProperty(baseKey, related)
      value == IF baseKey \in arrayFields /\ ~IsArray(prop.value)
               THEN JArr(<<prop.value>>) ELSE prop.value
  IN
  IF st.thrown \/ key \in st.processedKeys \/ baseKey = "" THEN st
  ELSE IF prop.thrown THEN [st EXCEPT !.thrown = TRUE]
  ELSE [thrown |-> FALSE,
        processedKeys |->
          st.processedKeys \cup {related[i].key : i \in 1..Len(related)},
        result |-> (baseKey :> value) @@ st.result]

\* the for loop over keys[from], ..., keys[to], in this order
RECURSIVE GroupLoop(_, _, _, _, _)
GroupLoop(st, tags, keys, from, to) ==
  IF from > to THEN st
  ELSE IF from = to THEN GroupStep(st, tags, keys[from])
  ELSE LET mid == (from + to) \div 2
           left == GroupLoop(st, tags, keys, from, mid)
       IN IF left.thrown THEN left
          ELSE GroupLoop(left, tags, keys, mid + 1, to)

unflattenTags(tags, defaultLanguage) ==
  GroupLoop([thrown |-> FALSE, processedKeys |-> {},
             result |-> FirstPass(tags, defaultLanguage)],
            tags, GroupKeys(tags), 1, Len(GroupKeys(tags)))

----------------------------------------------------------------------------
(* nostrToAmb                                                              *)

\* options?.defaultLanguage || 'de'
DefaultLanguage(o) ==
  IF Truthy(o, "defaultLanguage") THEN o.defaultLanguage ELSE "de"

KindIsAmb(e) == Has(e, "kind") /\ e.kind = 30142

\* the tags validation without the Array.isArray test
TagsIsList_AnyTruthy(e) == Has(e, "tags") /\ JTruthy(e.tags)

\* the tags validation that also rejects the empty list
TagsIsList_NonEmpty(e) ==
  Has(e, "tags") /\ JTruthy(e.tags) /\ IsArray(e.tags) /\ e.tags[2] # <<>>

TagsIsList(e) == Has(e, "tags") /\ JTruthy(e.tags) /\ IsArray(e.tags)

Present(amb, f) == Has(amb, f) /\ JTruthy(amb[f])

TypePresent(amb) ==
  Present(amb, "type") /\ IsArray(amb.type) /\ Len(amb.type[2]) # 0

\* the catch block of nostrToAmb
CatchUnflatten(error) ==
  Failure(ConversionError("Conversion failed: " \o error.message,
                          "CONVERSION_FAILED"))

\* the key of a tag whose first element is not a string (a number other
\* than 0): no split of a string gives the empty list
NotAString == <<>>

\* key.split / tagKey.startsWith on a key that is not a string
HasNonStringKey(tags) ==
  \E i \in 1..Len(tags) : Grouped(tags[i]) /\ tags[i][1] = NotAString

NonStringKeyError(tags) ==
  IF GroupKeys(tags)[1] = NotAString
  THEN TypeError("key.split is not a function")
  ELSE TypeError("tagKey.startsWith is not a function")

nostrToAmb(e, o) ==
  IF IsNull(e)
  THEN CatchUnflatten(TypeError(
         "Cannot read properties of null (reading 'kind')"))
  ELSE IF ~KindIsAmb(e)
  THEN Failure(ConversionError(
         "Invalid event kind. Expected 30142 for AMB events.",
         "INVALID_FORMAT"))
  ELSE IF ~TagsIsList(e)
  THEN Failure(ConversionError("Event must have a tags array",
                               "INVALID_FORMAT"))
  ELSE
    IF HasNonStringKey(e.tags[2])
    THEN CatchUnflatten(NonStringKeyError(e.tags[2]))
    ELSE
    LET st == unflattenTags(e.tags[2], DefaultLanguage(o)) IN
    IF st.thrown
    THEN CatchUnflatten(TypeError("Cannot create property on string"))
    ELSE IF ~Present(st.result, "id")
    THEN Failure(ConversionError("Missing required field: id (d tag)",
                                 "MISSING_REQUIRED_FIELD"))
    ELSE IF ~Present(st.result, "name")
    THEN Failure(ConversionError("Missing required field: name",
                                 "MISSING_REQUIRED_FIELD"))
    ELSE IF ~TypePresent(st.result)
    THEN Failure(ConversionError("Missing required field: type",
                                 "MISSING_REQUIRED_FIELD"))
    ELSE [success |-> TRUE, data |-> st.result]

----------------------------------------------------------------------------
(* Inputs of ambToNostr                                                    *)

MaxList == 2       \* longest keywords / inLanguage / type list drawn
MaxFields == 2     \* most optional fields present together (besides all)
MaxConcepts == 2   \* longest about list drawn for the label round trip

RECURSIVE SeqsUpTo(_, _)
SeqsUpTo(S, n) ==
  IF n = 0 THEN {<<>>}
  ELSE LET shorter == SeqsUpTo(S, n - 1) IN
       shorter \cup {Append(q, x) : q \in shorter, x \in S}

NonEmptySeqsUpTo(S, n) == SeqsUpTo(S, n) \ {<<>>}

\* sequences without repetition: the entries of a mapping in insertion order
DistinctSeqs(S) ==
  {q \in NonEmptySeqsUpTo(S, Cardinality(S)) :
     \A i, j \in 1..Len(q) : i # j => q[i] # q[j]}

Person1 ==
  [type |-> "Person", name |-> "Ada", id |-> "orcid1",
   honorificPrefix |-> "Dr.",
   affiliation |-> [name |-> "MIT", type |-> "Organization", id |-> "ror1"]]
Person2 == [type |-> "Person", name |-> "Bob"]
Org1 == [type |-> "Organization", name |-> "Tutory", id |-> "org1"]
Org2 == [type |-> "Organization", name |-> "KIM"]

Concept1 ==
  [id |-> "c1", type |-> "Concept",
   prefLabel |-> << <<"en", "Computer Science">>, <<"de", "Informatik">>,
                    <<"fr", "Informatique">> >>]
Concept2 == [id |-> "c2", prefLabel |-> << <<"de", "Mathe">> >>]
Concept3 == [id |-> "c3", type |-> "Concept"]

Part1 ==
  [id |-> "p1", name |-> "Chapter 1",
   type |-> <<"LearningResource", "Course">>]
Part2 == [id |-> "p2", name |-> "Chapter 2", type |-> <<"LearningResource">>]
Part3 == [id |-> "p3"]

\* a resource with every field the flattener reads, lists of two entries
FullResource1 ==
  [id |-> "r1", type |-> <<"LearningResource", "Course">>, name |-> "N",
   description |-> "Desc", keywords |-> <<"Math", "a">>,
   inLanguage |-> <<"en", "de">>, creator |-> <<Person1, Org2>>,
   publisher |-> <<Org1, Person2>>, license |-> [id |-> "cc-by"],
   isAccessibleForFree |-> TRUE, conditionsOfAccess |-> Concept1,
   about |-> <<Concept1, Concept2>>,
   educationalLevel |-> <<Concept2, Concept3>>,
   audience |-> <<Concept3, Concept1>>,
   learningResourceType |-> <<Concept1, Concept3>>,
   datePublished |-> "2020-06-25", dateCreated |-> "2020-06-24",
   image |-> "img.png", hasPart |-> <<Part1, Part2>>,
   isPartOf |-> <<Part3, Part1>>,
   isBasedOn |-> <<[id |-> "s1", name |-> "Source"], [id |-> "s2"]>>]

\* the same fields with single entries, and with the empty values
FullResource2 ==
  [id |-> "r2", type |-> <<"LearningResource">>, name |-> "N",
   description |-> "", keywords |-> <<"a">>,
   inLanguage |-> <<"en">>, creator |-> <<Person2>>,
   publisher |-> <<Org2>>, license |-> [id |-> ""],
   isAccessibleForFree |-> FALSE, conditionsOfAccess |-> Concept3,
   about |-> <<Concept2>>, educationalLevel |-> <<Concept1>>,
   audience |-> <<>>, learningResourceType |-> <<Concept2>>,
   datePublished |-> "2021", dateCreated |-> "", image |-> "i",
   hasPart |-> <<Part3>>, isPartOf |-> <<Part2>>,
   isBasedOn |-> <<[id |-> "s1"]>>]

FullResources == {FullResource1, FullResource2}

RequiredFields == {"id", "type", "name"}
OptionalFields == DOMAIN FullResource1 \ RequiredFields

\* id and name missing, empty or given
ValidationResources ==
  {Restrict(base, S) :
     base \in {[id |-> i, name |-> n, type |-> <<"LearningResource">>,
                hasPart |-> <<Part1>>] :
                 i \in {"", "r1"}, n \in {"", "N"}},
     S \in {{"type", "hasPart"} \cup T : T \in SUBSET {"id", "name"}}}

\* resources with only id, name, type, description, keywords, inLanguage
SimpleResources ==
  {Restrict([id |-> i, name |-> "N", type |-> t, description |-> d,
             keywords |-> k, inLanguage |-> l], S) :
     i \in {"r1", "r2"},
     t \in NonEmptySeqsUpTo({"LearningResource", "Course"}, MaxList),
     d \in {"", "Desc"},
     k \in SeqsUpTo({"a", "B", ""}, MaxList),
     l \in SeqsUpTo({"en", "de"}, MaxList),
     S \in {RequiredFields \cup T :
              T \in SUBSET {"description", "keywords", "inLanguage"}}}

\* resources whose about list holds Concepts with multi-language labels
LabelOf(lang, n) ==
  CASE lang = "en" -> IF n = 1 THEN "Computer Science" ELSE "Physics"
    [] lang = "de" -> IF n = 1 THEN "Informatik" ELSE "Physik"
    [] OTHER -> IF n = 1 THEN "Informatique" ELSE "Physique"

LabelledConcepts(n) ==
  {Restrict([id |-> IF n = 1 THEN "c1" ELSE "c2", type |-> "Concept",
             prefLabel |-> [i \in 1..Len(langs) |->
                              <<langs[i], LabelOf(langs[i], n)>>]], S) :
     langs \in DistinctSeqs({"en", "de", "fr"}),
     S \in {{"id", "prefLabel"}, {"id", "prefLabel", "type"}}}

ConceptLists ==
  {<<c>> : c \in LabelledConcepts(1)}
  \cup (IF MaxConcepts >= 2
        THEN {<<c, e>> : c \in LabelledConcepts(1), e \in LabelledConcepts(2)}
        ELSE {})
  \cup (IF MaxConcepts >= 3
        THEN {<<c, e, c>> : c \in LabelledConcepts(1),
                            e \in LabelledConcepts(2)}
        ELSE {})

ConceptResources ==
  {[id |-> "r1", type |-> <<"LearningResource">>, name |-> "N", about |-> a] :
     a \in ConceptLists}

\* resources with each list of at most MaxList of the four agents as creator
CreatorResources ==
  {[id |-> "r1", type |-> <<"LearningResource">>, name |-> "N",
    creator |-> c] :
     c \in NonEmptySeqsUpTo({Person1, Person2, Org1, Org2}, MaxList)}

\* resources with at most MaxFields of the optional fields, and with all
FieldResources ==
  {Restrict(full, RequiredFields \cup S) :
     full \in FullResources,
     S \in {T \in SUBSET OptionalFields : Cardinality(T) <= MaxFields}}
  \cup FullResources

FullOptions ==
  {[pubkey |-> "1234567890abcdef", includeRelationships |-> FALSE,
    timestamp |-> 1700000000, relayHints |-> <<"wss://a", "wss://b">>,
    deterministicIds |-> TRUE],
   [pubkey |-> DEFAULT_PUBKEY, includeRelationships |-> TRUE,
    timestamp |-> 0, relayHints |-> <<>>, deterministicIds |-> FALSE],
   [pubkey |-> "", includeRelationships |-> TRUE,
    timestamp |-> 1700000000, relayHints |-> <<"wss://a">>,
    deterministicIds |-> FALSE]}

AllOptions ==
  {Restrict(full, S) : full \in FullOptions,
                       S \in SUBSET {"pubkey", "includeRelationships",
                                     "timestamp", "relayHints"}}

FewOptions ==
  {<<>>,
   [pubkey |-> "1234567890abcdef", timestamp |-> 1700000000],
   [pubkey |-> "1234567890abcdef", includeRelationships |-> FALSE,
    relayHints |-> <<"wss://a", "wss://b">>]}

Clock == {1762130000, 1762130001}

NoResource == [none |-> TRUE]
NoOptions == <<>>
NoResult == [pending |-> TRUE]
NoEvent == [none |-> TRUE]
\* no loop is running
NoScan == [step |-> "none"]
\* no command is running
NoCommand == [step |-> "none"]

InitFlatten ==
  /\ \/ /\ ambResource \in ValidationResources \cup FullResources
        /\ options \in AllOptions
        /\ now \in Clock
     \/ /\ ambResource \in SimpleResources \cup ConceptResources
                             \cup FieldResources \cup CreatorResources
        /\ options \in FewOptions
        /\ now = 1762130000
  /\ flat = NoResult
  /\ event = NoEvent
  /\ unflatOptions = NoOptions
  /\ unflat = NoResult
  /\ cli = NoCommand
  /\ scan = NoScan
  /\ pc = "start"

----------------------------------------------------------------------------
(* Inputs of nostrToAmb                                                    *)

MaxTags == 4   \* longest list of tags drawn after the required ones

DTag == <<<<"d">>, "r1">>
NameTag == <<<<"name">>, "N">>
TypeTag == <<<<"type">>, "LearningResource">>

\* the required tags: each subset of d, name, type, in the flattener's order
RequiredTagLists ==
  {(IF "d" \in S THEN <<DTag>> ELSE <<>>)
   \o (IF "type" \in S THEN <<TypeTag>> ELSE <<>>)
   \o (IF "name" \in S THEN <<NameTag>> ELSE <<>>) :
     S \in SUBSET {"d", "name", "type"}}

TagAlphabet ==
  {<<<<"id">>, "x">>,
   <<<<"creator", "name">>, "John Doe">>,
   <<<<"creator", "name">>, "Jane Smith">>,
   <<<<"creator", "type">>, "Person">>,
   <<<<"license", "id">>, "cc-by">>,
   <<<<"license", "id", "x">>, "deep">>,
   <<<<"invalid">>>>}

TagLists ==
  {req \o rest : req \in RequiredTagLists,
                 rest \in SeqsUpTo(TagAlphabet, MaxTags)}

MaxRepeats == 2   \* longest list of tags drawn that repeat a singleton key

\* tags that repeat or extend the singleton keys
SingletonAlphabet ==
  {<<<<"name">>, "M">>,
   <<<<"name", "first">>, "Ada">>,
   <<<<"type">>, "">>,
   <<<<"d">>, "r2">>}

SingletonTagLists ==
  {req \o rest : req \in RequiredTagLists,
                 rest \in SeqsUpTo(SingletonAlphabet, MaxRepeats)}

MaxReserved == 3   \* longest list of tags drawn around the reserved keys

\* d and t tags, with and without a value and with a third element, and
\* ordinary tags named after the fields the first pass sets
ReservedAlphabet ==
  {<<<<"d">>, "r2">>,
   <<<<"d">>, "">>,
   <<<<"d">>, "r3", "extra">>,
   <<<<"t">>, "math">>,
   <<<<"t">>, "">>,
   <<<<"t">>, "Art", "extra">>,
   <<<<"id">>, "x">>,
   <<<<"keywords">>, "k">>,
   <<<<"@context">>, "ctx">>,
   <<<<"license", "id">>, "cc-by">>}

ReservedTagLists ==
  {<<DTag, TypeTag, NameTag>> \o rest :
     rest \in SeqsUpTo(ReservedAlphabet, MaxReserved)}

\* events of the AMB kind with a list of tags
AmbEvents ==
  {[kind |-> 30142, pubkey |-> "pk", created_at |-> 123456,
    tags |-> JArr(tags), content |-> ""] :
     tags \in TagLists \cup SingletonTagLists \cup ReservedTagLists}

\* events with a wrong or missing kind, or with tags that are not a list
IllFormedEvents ==
  {Restrict([kind |-> k, pubkey |-> "pk", created_at |-> 123456,
             tags |-> t, content |-> ""], S) :
     k \in {0, 1, 30142},
     t \in {JStr(""), JStr("x"), JObj(EmptyObject),
            JArr(<<>>), JArr(<<DTag, TypeTag, NameTag>>)},
     S \in {{"pubkey", "created_at", "content"} \cup T :
              T \in SUBSET {"kind", "tags"}}}

UnflattenOptions ==
  {<<>>, [defaultLanguage |-> "en"], [defaultLanguage |-> ""]}

InitUnflatten ==
  /\ ambResource = NoResource
  /\ options = NoOptions
  /\ now = 1762130000
  /\ flat = NoResult
  /\ \/ event \in AmbEvents /\ unflatOptions = NoOptions
     \/ event \in IllFormedEvents /\ unflatOptions \in UnflattenOptions
  /\ unflat = NoResult
  /\ cli = NoCommand
  /\ scan = NoScan
  /\ pc = "received"

----------------------------------------------------------------------------
(* Ill-shaped inputs: values the declared types exclude                    *)

IllShapedResources ==
  {Null,
   [id |-> "r1", name |-> "N", type |-> <<"LearningResource">>,
    creator |-> <<Null>>],
   [id |-> "r1", name |-> "N", type |-> <<"LearningResource">>,
    publisher |-> <<Org1, Null>>],
   [name |-> "N", type |-> <<"LearningResource">>, creator |-> <<Null>>]}

NumberKeyTag == <<NotAString, "x">>

IllShapedTagLists ==
  {req \o rest : req \in RequiredTagLists,
                 rest \in {<<NumberKeyTag>>,
                           <<<<<<"license", "id">>, "cc-by">>, NumberKeyTag>>,
                           <<NumberKeyTag, <<<<"invalid">>>> >>}}

IllShapedEvents ==
  {Null}
  \cup {[kind |-> k, pubkey |-> "pk", created_at |-> 123456,
         tags |-> JArr(tags), content |-> ""] :
          k \in {1, 30142}, tags \in IllShapedTagLists}

InitIllShaped ==
  /\ \/ /\ ambResource \in IllShapedResources
        /\ options \in FewOptions \cup {Null}
        /\ event = NoEvent
        /\ pc = "start"
     \/ /\ ambResource \in ValidationResources
        /\ options = Null
        /\ event = NoEvent
        /\ pc = "start"
     \/ /\ ambResource = NoResource
        /\ options = NoOptions
        /\ event \in IllShapedEvents
        /\ pc = "received"
  /\ now = 1762130000
  /\ flat = NoResult
  /\ unflatOptions \in {NoOptions, Null}
  /\ unflat = NoResult
  /\ cli = NoCommand
  /\ scan = NoScan

\* every input of the model, well-shaped or not
InitAnyInput == InitFlatten \/ InitUnflatten \/ InitIllShaped

----------------------------------------------------------------------------
(* The calls                                                               *)

\* the caller converts a resource
AmbToNostr ==
  /\ pc = "start"
  /\ flat' = ambToNostr(ambResource, options, now)
  /\ pc' = "flattened"
  /\ UNCHANGED <<ambResource, options, now, event, unflatOptions, unflat, cli,
                 scan>>

\* the caller hands the event it obtained to the unflattener
\* (README "Example workflow": amb:nostr, then nostr:amb on the output)
Feed ==
  /\ pc = "flattened"
  /\ Has(flat, "success") /\ flat.success
  /\ event' = flat.data
  /\ pc' = "received"
  /\ UNCHANGED <<ambResource, options, now, flat, unflatOptions, unflat, cli,
                 scan>>

\* the conversion of an event that takes the tags out of the event's list
\* as it reads them
NostrToAmb_Consuming ==
  /\ pc = "received"
  /\ unflat' = nostrToAmb(event, unflatOptions)
  /\ event' = IF ~IsNull(event) /\ TagsIsList(event)
              THEN [event EXCEPT !.tags = JArr(<<>>)] ELSE event
  /\ pc' = "done"
  /\ UNCHANGED <<ambResource, options, now, flat, unflatOptions, cli,
                 scan>>

\* the caller converts an event
NostrToAmb ==
  /\ pc = "received"
  /\ unflat' = nostrToAmb(event, unflatOptions)
  /\ pc' = "done"
  /\ UNCHANGED <<ambResource, options, now, flat, event, unflatOptions, cli,
                 scan>>

NextFlatten == AmbToNostr \/ Feed \/ NostrToAmb

NextUnflatten == NostrToAmb

SpecFlatten == InitFlatten /\ [][NextFlatten]_vars

SpecUnflatten == InitUnflatten /\ [][NextUnflatten]_vars

SpecAnyInput == InitAnyInput /\ [][NextFlatten]_vars

Init == InitFlatten

Next == NextFlatten

Spec == Init /\ [][Next]_vars

----------------------------------------------------------------------------
(* The convert command: src/cli/commands/convert.ts                        *)

\* a JavaScript Error
Error(message) == [name |-> "Error", message |-> message]

\* a text is a record: [json |-> v, ...] is the JSON text of the value v,
\* [blank |-> TRUE] is white space, [garbage |-> TRUE] is no JSON at all

\* JSON.stringify(data) or JSON.stringify(data, null, 2)
formatJSON(data, pretty) == [json |-> data, pretty |-> pretty]

\* JSON.parse(data), its SyntaxError wrapped into "Invalid JSON: ..."
parseJSON(data) ==
  IF Has(data, "json")
  THEN [ok |-> TRUE, value |-> data.json]
  ELSE [ok |-> FALSE, error |-> Error("Invalid JSON: Unexpected token")]

\* direction.toLowerCase().trim() on the spellings of DirectionArgs
Normalized(direction) ==
  CASE direction = "AMB:Nostr" -> "amb:nostr"
    [] direction = " nostr-amb" -> "nostr-amb"
    [] OTHER -> direction

parseDirection(direction) ==
  LET normalized == Normalized(direction) IN
  IF normalized = "amb:nostr" \/ normalized = "amb-nostr"
  THEN [ok |-> TRUE, value |-> "amb:nostr"]
  ELSE IF normalized = "nostr:amb" \/ normalized = "nostr-amb"
  THEN [ok |-> TRUE, value |-> "nostr:amb"]
  ELSE [ok |-> FALSE,
        error |-> Error("Invalid conversion direction: \"" \o direction
                        \o "\". Must be \"amb:nostr\" or \"nostr:amb\"")]

\* the signing utilities (utils/signing.js): a key in nsec or hex form is
\* parsed to hex, or rejected
parsePrivateKey(keyInput) ==
  IF keyInput = "nsec1abc" \/ keyInput = "00ff"
  THEN [ok |-> TRUE, value |-> "00ff"]
  ELSE [ok |-> FALSE, error |-> Error("Invalid private key")]

derivePublicKey(privateKeyHex) == "pub-" \o privateKeyHex

\* the event with its id and signature
signNostrEvent(e, privateKeyHex) ==
  [id |-> "id-of-event", sig |-> "sig-" \o privateKeyHex] @@ e



\* options.nsec && options.privateKey
BothKeys(o) == Truthy(o, "nsec") /\ Truthy(o, "privateKey")

\* the test for a key that looks at --nsec only
AnyKey_NsecOnly(o) == Truthy(o, "nsec")

\* options.nsec || options.privateKey
AnyKey(o) == Truthy(o, "nsec") \/ Truthy(o, "privateKey")

\* one more step of the run
Did(c, what) == [c EXCEPT !.trace = Append(@, what)]

\* a line on stderr
Say(c, level, message) ==
  [c EXCEPT !.stderr = Append(@, <<level, message>>)]

\* catch (err) { displayError(err.message); process.exit(1) }
Exit(c, err) ==
  [Say(c, "error", err.message) EXCEPT !.exitCode = 1, !.step = "exited"]

\* conversionResult.error?.message || 'Conversion failed'
FailureMessage(result) ==
  IF Has(result, "error") /\ result.error.message # ""
  THEN result.error.message
  ELSE "Conversion failed"

\* the end of both branches: the output is formatted and handed to
\* writeOutput, which is awaited
ToWrite(c, result) ==
  [c EXCEPT !.outputData = formatJSON(result, c.options.pretty),
            !.step = "writing"]

\* the amb:nostr branch
ConvertAmbToNostr(c, inputJson, conversionOptions, privateKeyHex, clock) ==
  LET c1 == Did(Say(c, "info", "Converting AMB to Nostr..."), "convert")
      conversionResult == ambToNostr(inputJson, conversionOptions, clock)
  IN
  IF ~conversionResult.success
  THEN Exit(c1, Error(FailureMessage(conversionResult)))
  ELSE
    LET warnings == IF Has(conversionResult, "warnings")
                    THEN conversionResult.warnings ELSE <<>>
        c2 == [c1 EXCEPT !.stderr =
                 @ \o [i \in 1..Len(warnings) |-> <<"warning", warnings[i]>>]]
    IN
    IF ~Has(conversionResult, "data")
    THEN Exit(c2, Error("Conversion succeeded but no data was returned"))
    ELSE
      LET signed == privateKeyHex # ""
          ev == IF signed
                THEN signNostrEvent(conversionResult.data, privateKeyHex)
                ELSE conversionResult.data
          c3 == IF signed
                THEN Say(Did(Say(c2, "info", "Signing event..."), "sign"),
                         "info", "Event ID: " \o ev.id)
                ELSE c2
      IN ToWrite(c3, IF c.options.tags THEN ev.tags ELSE ev)

\* the nostr:amb branch
ConvertNostrToAmb(c, inputJson) ==
  LET c1 == Say(c, "info", "Converting Nostr to AMB...")
      c2 == IF AnyKey(c.options)
            THEN Say(c1, "warning",
                     "--nsec and --private-key options are ignored for nostr:amb conversion")
            ELSE c1
      c3 == IF c.options.tags
            THEN Say(c2, "warning",
                     "--tags option is ignored for nostr:amb conversion")
            ELSE c2
      c4 == Did(c3, "convert")
      conversionResult == nostrToAmb(inputJson, NoOptions)
  IN
  IF ~conversionResult.success
  THEN Exit(c4, Error(FailureMessage(conversionResult)))
  ELSE IF ~Has(conversionResult, "data")
  THEN Exit(c4, Error("Conversion succeeded but no data was returned"))
  ELSE ToWrite(c4, conversionResult.data)

\* executeConvert from the input data to the call of writeOutput
AfterRead(c, inputData, clock) ==
  IF Has(inputData, "blank")
  THEN Exit(c, Error("Input is empty"))
  ELSE
    LET c1 == Did(c, "parseJSON")
        parsed == parseJSON(inputData)
    IN
    IF ~parsed.ok THEN Exit(c1, parsed.error)
    ELSE
      LET withKey == c.direction = "amb:nostr" /\ AnyKey(c.options)
          keyInput == IF Truthy(c.options, "nsec") THEN c.options.nsec
                      ELSE c.options.privateKey
          key == IF withKey THEN parsePrivateKey(keyInput)
                 ELSE [ok |-> TRUE, value |-> ""]
          c2 == IF withKey THEN Did(c1, "parsePrivateKey") ELSE c1
      IN
      IF ~key.ok THEN Exit(c2, key.error)
      ELSE
        LET derivedPubkey == IF withKey THEN derivePublicKey(key.value)
                             ELSE ""
            c3 == IF withKey
                  THEN Say(c2, "info", "Derived pubkey: " \o derivedPubkey)
                  ELSE c2
            conversionOptions == IF derivedPubkey # ""
                                 THEN [pubkey |-> derivedPubkey]
                                 ELSE NoOptions
        IN
        IF c.direction = "amb:nostr"
        THEN ConvertAmbToNostr(c3, parsed.value, conversionOptions,
                               key.value, clock)
        ELSE ConvertNostrToAmb(c3, parsed.value)

\* the command line is parsed by commander and the action callback runs up
\* to the first await: parseDirection, then the check of the two key
\* options at the top of executeConvert
Invoked(c) ==
  LET d == parseDirection(c.args.direction) IN
  IF ~d.ok THEN Exit(c, d.error)
  ELSE IF BothKeys(c.options)
  THEN Exit(c, Error("Cannot specify both --nsec and --private-key options"))
  ELSE [c EXCEPT !.direction = d.value, !.step = "reading"]

Invoke ==
  /\ cli.step = "invoked"
  /\ cli' = Invoked(cli)
  /\ UNCHANGED <<ambResource, options, now, flat, event, unflatOptions,
                 unflat, pc, scan>>

\* readInput settles, from the file (in.json is the one that exists) or
\* from stdin ("-"), and executeConvert runs
\* on to the call of writeOutput
readInput(c, clock) ==
  LET c1 == Did(c, "readInput") IN
  IF c.args.input # "-" /\ c.args.input \notin {"in.json"}
  THEN Exit(c1, Error("ENOENT: no such file or directory"))
  ELSE AfterRead(c1, c.source, clock)

ReadInput ==
  /\ cli.step = "reading"
  /\ cli' = readInput(cli, now)
  /\ UNCHANGED <<ambResource, options, now, flat, event, unflatOptions,
                 unflat, pc, scan>>

\* writeOutput settles (out.json is the one path that can be written) and
\* the success line ends the run
writeOutput(c) ==
  LET c1 == Did(c, "writeOutput")
      toFile == Has(c.options, "output") /\ c.options.output # ""
  IN
  IF toFile /\ c.options.output \notin {"out.json"}
  THEN Exit(c1, Error("ENOENT: no such file or directory"))
  ELSE [Say(c1, "success",
            IF toFile
            THEN "Conversion complete! Output written to: "
                   \o c.options.output
            ELSE "Conversion complete!")
          EXCEPT !.written = Append(@, <<IF toFile THEN c.options.output
                                         ELSE "-", c.outputData>>),
                 !.exitCode = 0,
                 !.step = "exited"]

WriteOutput ==
  /\ cli.step = "writing"
  /\ cli' = writeOutput(cli)
  /\ UNCHANGED <<ambResource, options, now, flat, event, unflatOptions,
                 unflat, pc, scan>>

\* the spellings of the direction argument
DirectionArgs == {"amb:nostr", "AMB:Nostr", "nostr:amb", " nostr-amb", "amb2nostr"}

\* the options commander hands over: pretty and tags default to false, the
\* others are absent unless given
CommandOptions ==
  {Restrict([nsec |-> n, privateKey |-> k, output |-> o,
             tags |-> t, pretty |-> p], S) :
     n \in {"", "nsec1abc", "nsec1zzz"}, k \in {"", "00ff", "xyz"},
     o \in {"out.json", "nodir/out.json"}, t \in BOOLEAN, p \in BOOLEAN,
     S \in {{"tags", "pretty"} \cup T :
              T \in SUBSET {"nsec", "privateKey", "output"}}}

\* what stdin or the input file holds
SourceTexts ==
  {[blank |-> TRUE], [garbage |-> TRUE]}
  \cup {formatJSON(v, FALSE) :
          v \in {[id |-> "r1", type |-> <<"LearningResource">>, name |-> "N",
                  keywords |-> <<"Math">>],
                 [id |-> "r1", type |-> <<"LearningResource">>],
                 [kind |-> 30142, pubkey |-> "pk", created_at |-> 123456,
                  tags |-> JArr(<<DTag, TypeTag, NameTag>>), content |-> ""],
                 [kind |-> 1, pubkey |-> "pk", created_at |-> 123456,
                  tags |-> JArr(<<DTag, TypeTag, NameTag>>), content |-> ""]}}

\* the command as commander invokes it: nothing done, said or written yet
Command(args, o, source) ==
  [step |-> "invoked", args |-> args, options |-> o, source |-> source,
   direction |-> "", outputData |-> [blank |-> TRUE], trace |-> <<>>,
   stderr |-> <<>>, written |-> <<>>, exitCode |-> -1]

InitCli ==
  /\ cli \in {Command([direction |-> d, input |-> i], o, src) :
                d \in DirectionArgs,
                i \in {"-", "in.json", "missing.json"},
                o \in CommandOptions,
                src \in SourceTexts}
  /\ ambResource = NoResource
  /\ options = NoOptions
  /\ now = 1762130000
  /\ flat = NoResult
  /\ event = NoEvent
  /\ unflatOptions = NoOptions
  /\ unflat = NoResult
  /\ pc = "cli"
  /\ scan = NoScan

NextCli == Invoke \/ ReadInput \/ WriteOutput

SpecCli == InitCli /\ [][NextCli]_vars

----------------------------------------------------------------------------
(* The loop of reconstructNestedObjects, one tag at a time                 *)

MaxScan == 4

\* collected tags of the base key about: { key, values }
ScanAlphabet ==
  {[key |-> <<"about", "id">>, values |-> <<"c1">>],
   [key |-> <<"about", "id">>, values |-> <<"c2">>],
   [key |-> <<"about", "type">>, values |-> <<"Concept">>],
   [key |-> <<"about", "prefLabel">>, values |-> <<"Math">>],
   [key |-> <<"about", "inLanguage">>, values |-> <<"de">>],
   [key |-> <<"about", "inLanguage">>, values |-> <<"">>],
   [key |-> <<"about", "inScheme">>, values |-> <<"flat">>],
   [key |-> <<"about", "inScheme", "id">>, values |-> <<"s1">>],
   [key |-> <<"about", "">>, values |-> <<"v">>]}

InitScan ==
  /\ scan \in {[step |-> "loop", tags |-> t, i |-> 1, st |-> [objects |-> <<>>, cur |-> EmptyObject, thrown |-> FALSE],
                result |-> [thrown |-> FALSE, value |-> Undefined]] :
                 t \in NonEmptySeqsUpTo(ScanAlphabet, MaxScan)}
  /\ ambResource = NoResource
  /\ options = NoOptions
  /\ now = 1762130000
  /\ flat = NoResult
  /\ event = NoEvent
  /\ unflatOptions = NoOptions
  /\ unflat = NoResult
  /\ pc = "scan"
  /\ cli = NoCommand

\* the body of the for loop runs on the next tag
ScanTag ==
  /\ scan.step = "loop"
  /\ scan.i <= Len(scan.tags)
  /\ ~scan.st.thrown
  /\ scan' = [scan EXCEPT !.st = LoopStep(scan.st, scan.tags, scan.i),
                          !.i = scan.i + 1]
  /\ UNCHANGED <<ambResource, options, now, flat, event, unflatOptions,
                 unflat, pc, cli>>

\* the loop is left, by its end or by the TypeError, and the function
\* returns or throws
ScanEnd ==
  /\ scan.step = "loop"
  /\ scan.i > Len(scan.tags) \/ scan.st.thrown
  /\ scan' = [scan EXCEPT
                !.step = "returned",
                !.result = IF scan.st.thrown THEN [thrown |-> TRUE]
                           ELSE [thrown |-> FALSE,
                                 value |-> Collapse(FinishObjects(scan.st))]]
  /\ UNCHANGED <<ambResource, options, now, flat, event, unflatOptions,
                 unflat, pc, cli>>

NextScan == ScanTag \/ ScanEnd

SpecScan == InitScan /\ [][NextScan]_vars

----------------------------------------------------------------------------
(* Properties                                                              *)

Flattened == pc \in {"flattened", "received", "done"}

Converted == pc = "done"

MsgNoId == "AMB resource must have an id"
MsgNoName == "AMB resource must have a name"
MsgKind == "Invalid event kind. Expected 30142 for AMB events."
MsgTags == "Event must have a tags array"
MsgMissingId == "Missing required field: id (d tag)"
MsgMissingName == "Missing required field: name"
MsgMissingType == "Missing required field: type"

FailsWith(result, code, message) ==
  /\ result.success = FALSE
  /\ ~Has(result, "data")
  /\ result.error.code = code
  /\ result.error.message = message

MissingOrEmpty(r, f) == ~Has(r, f) \/ r[f] = ""

\* C1: ambToNostr validates fail-fast and in order: a resource whose id is
\* missing or empty fails with MISSING_REQUIRED_FIELD naming id, even when
\* the name is missing too; a resource with an id whose name is missing or
\* empty fails with MISSING_REQUIRED_FIELD naming name; no event is returned.
C1_FailFastValidation ==
  Flattened =>
    /\ MissingOrEmpty(ambResource, "id")
         => FailsWith(flat, "MISSING_REQUIRED_FIELD", MsgNoId)
    /\ ~MissingOrEmpty(ambResource, "id") /\ MissingOrEmpty(ambResource, "name")
         => FailsWith(flat, "MISSING_REQUIRED_FIELD", MsgNoName)

\* id and name both missing: the error names id
C1_Witness ==
  /\ Flattened
  /\ ~Has(ambResource, "id") /\ ~Has(ambResource, "name")
  /\ flat.success = FALSE /\ flat.error.message = MsgNoId

\* C2: nostrToAmb rejects every event whose kind is not 30142 with
\* INVALID_FORMAT, whatever its tags are, and every event of kind 30142
\* whose tags is absent or not a list with INVALID_FORMAT; the kind check
\* comes first.
C2_KindThenTags ==
  Converted /\ ambResource = NoResource =>
    LET kindOk == Has(event, "kind") /\ event.kind = 30142
        tagsOk == Has(event, "tags") /\ event.tags[1] = "arr"
    IN /\ ~kindOk => FailsWith(unflat, "INVALID_FORMAT", MsgKind)
       /\ kindOk /\ ~tagsOk => FailsWith(unflat, "INVALID_FORMAT", MsgTags)

\* wrong kind and tags that are not a list: the error is the one of the kind
C2_Witness ==
  /\ Converted
  /\ Has(event, "kind") /\ event.kind = 1
  /\ Has(event, "tags") /\ event.tags[1] = "obj"
  /\ unflat.success = FALSE /\ unflat.error.message = MsgKind

\* the event has a tag with this bare key
HasTag(tags, k) == \E i \in 1..Len(tags) : tags[i][1] = <<k>>

\* C3: after reconstruction nostrToAmb checks id, name, type in this order:
\* an event of kind 30142 with no d tag fails with MISSING_REQUIRED_FIELD
\* naming id; one with a d tag but no name tag fails naming name; one with
\* d and name but no type tag fails naming type.
C3_RequiredFieldOrder ==
  Converted /\ KindIsAmb(event) /\ TagsIsList(event) =>
    LET tags == event.tags[2] IN
    /\ ~HasTag(tags, "d")
         => FailsWith(unflat, "MISSING_REQUIRED_FIELD", MsgMissingId)
    /\ HasTag(tags, "d") /\ ~HasTag(tags, "name")
         => FailsWith(unflat, "MISSING_REQUIRED_FIELD", MsgMissingName)
    /\ HasTag(tags, "d") /\ HasTag(tags, "name") /\ ~HasTag(tags, "type")
         => FailsWith(unflat, "MISSING_REQUIRED_FIELD", MsgMissingType)

SimpleFields ==
  {"id", "name", "type", "description", "keywords", "inLanguage"}

SimpleOnly(r) == DOMAIN r \subseteq SimpleFields /\ Len(r.type) >= 1

StrList(q) == JArr([i \in 1..Len(q) |-> JStr(q[i])])

NonEmptyStrings(q) == SelectSeq(q, LAMBDA x : x # "")

\* the string field f of r is reproduced when it is non-empty
SameString(r, data, f) ==
  Truthy(r, f) => Has(data, f) /\ data[f] = JStr(r[f])

\* the list field f of r is reproduced when it is non-empty
SameList(r, data, f) ==
  Has(r, f) /\ r[f] # <<>> => Has(data, f) /\ data[f] = StrList(r[f])

\* C4 as stated: the round trip of a resource with only simple fields
\* succeeds and reproduces id, name, type, description, keywords and
\* inLanguage exactly.
C4_RoundTripExact ==
  Converted /\ SimpleOnly(ambResource) =>
    /\ unflat.success
    /\ SameString(ambResource, unflat.data, "id")
    /\ SameString(ambResource, unflat.data, "name")
    /\ SameList(ambResource, unflat.data, "type")
    /\ SameString(ambResource, unflat.data, "description")
    /\ SameList(ambResource, unflat.data, "keywords")
    /\ SameList(ambResource, unflat.data, "inLanguage")

\* C4 (amended): the round trip of a resource with only simple fields
\* succeeds and reproduces id, name, type, description and inLanguage
\* exactly, and the keywords lower-cased in the same order; an empty
\* description, an empty keywords or inLanguage list and empty-string
\* keywords are not reproduced.
C4_RoundTripLowerCased ==
  Converted /\ SimpleOnly(ambResource) =>
    LET r == ambResource
        data == unflat.data
        kept == IF Has(r, "keywords") THEN NonEmptyStrings(r.keywords)
                ELSE <<>>
    IN
    /\ unflat.success
    /\ SameString(r, data, "id")
    /\ SameString(r, data, "name")
    /\ SameList(r, data, "type")
    /\ SameString(r, data, "description")
    /\ ~Truthy(r, "description") => ~Has(data, "description")
    /\ SameList(r, data, "inLanguage")
    /\ ~(Has(r, "inLanguage") /\ r.inLanguage # <<>>)
         => ~Has(data, "inLanguage")
    /\ kept # <<>>
         => /\ Has(data, "keywords")
            /\ data.keywords =
                 JArr([i \in 1..Len(kept) |-> JStr(toLowerCase(kept[i]))])
    /\ kept = <<>> => ~Has(data, "keywords")

\* a resource with all three optional simple fields and an upper-case
\* keyword has gone through the round trip
C4_Witness ==
  /\ Converted
  /\ SimpleOnly(ambResource)
  /\ Truthy(ambResource, "description")
  /\ Has(ambResource, "inLanguage") /\ Len(ambResource.inLanguage) = 2
  /\ Has(ambResource, "keywords") /\ ambResource.keywords = <<"a", "B">>
  /\ unflat.success
  /\ unflat.data.keywords = StrList(<<"a", "b">>)

BaseOf(tag) == tag[1][1]

TagsOfBase(tags, b) == SelectSeq(tags, LAMBDA t : BaseOf(t) = b)

TagsOfKey(tags, k) == SelectSeq(tags, LAMBDA t : t[1] = k)

ValuesOf(q) == [i \in 1..Len(q) |-> q[i][2]]

\* the fields in the order the tags are to appear
FieldOrder ==
  <<"d", "type", "name", "description", "t", "inLanguage", "creator",
    "publisher", "license", "isAccessibleForFree", "conditionsOfAccess",
    "about", "educationalLevel", "audience", "learningResourceType",
    "datePublished", "dateCreated", "image", "r", "hasPart", "isPartOf",
    "isBasedOn">>

Rank(b) == CHOOSE i \in 1..Len(FieldOrder) : FieldOrder[i] = b

ListOr(r, f) == IF Has(r, f) THEN r[f] ELSE <<>>

\* the tags of one Concept: id, the labels in mapping order, then type
ConceptSegmentOk(F, seg, c) ==
  LET labels == ListOr(c, "prefLabel")
      n == Len(labels)
  IN /\ Len(seg) = 1 + n + (IF Truthy(c, "type") THEN 1 ELSE 0)
     /\ seg[1] = <<<<F, "id">>, c.id>>
     /\ \A j \in 1..n :
          seg[1 + j] = <<<<F, "prefLabel", labels[j][1]>>, labels[j][2]>>
     /\ Truthy(c, "type") => seg[Len(seg)] = <<<<F, "type">>, c.type>>

\* the tags of field F are the entries one after the other, each complete
ConceptBlockOk(F, tags, entries) ==
  LET block == TagsOfBase(tags, F)
      idPos == SelectSeq([i \in 1..Len(block) |-> i],
                         LAMBDA i : block[i][1] = <<F, "id">>)
      last(k) == IF k < Len(idPos) THEN idPos[k + 1] - 1 ELSE Len(block)
  IN /\ Len(idPos) = Len(entries)
     /\ block # <<>> => idPos[1] = 1
     /\ \A k \in 1..Len(idPos) :
          ConceptSegmentOk(F, SubSeq(block, idPos[k], last(k)), entries[k])

\* the name and type tags of an agent field follow the list order
AgentBlockOk(F, tags, entries) ==
  /\ Len(TagsOfKey(tags, <<F, "name">>)) = Len(entries)
  /\ ValuesOf(TagsOfKey(tags, <<F, "type">>))
       = [k \in 1..Len(entries) |-> entries[k].type]

\* the id tags of a relationship field follow the list order
IdsInOrder(F, tags, entries) ==
  ValuesOf(TagsOfKey(tags, <<F, "id">>))
    = [k \in 1..Len(entries) |-> entries[k].id]

\* the base key under which the tags of a resource field appear
TagBaseOf(f) == IF f = "keywords" THEN "t" ELSE f

C6_EmptyContent ==
  Flattened /\ flat.success =>
    /\ flat.data.content = ""
    /\ flat.data.kind = 30142

\* a success with every option given
C6_Witness ==
  /\ Flattened /\ flat.success
  /\ {"pubkey", "includeRelationships", "timestamp", "relayHints"}
       \subseteq DOMAIN options
  /\ flat.data.content = ""

RECURSIVE Repeat(_, _)
Repeat(c, n) == IF n = 0 THEN "" ELSE c \o Repeat(c, n - 1)

MsgDefaultPubkey ==
  "Using default pubkey - should provide a real pubkey in production"

ValidResource(r) == Truthy(r, "id") /\ Truthy(r, "name")

\* C7 (as stated): without an explicit pubkey, on a valid resource, the
\* event's pubkey is the all-zero 64-hex-digit placeholder, the result
\* carries a non-empty warnings list whose message references 'default
\* pubkey', and success is still true; with an explicit pubkey different
\* from the placeholder the event carries that pubkey and no such warning
\* is produced.  Warnings never change the success flag.
C7_ExplicitPubkeyKept ==
  Flattened /\ ValidResource(ambResource) =>
    /\ flat.success
    /\ ~Has(options, "pubkey")
         => /\ flat.data.pubkey = Repeat("0", 64)
            /\ Has(flat, "warnings")
            /\ Len(flat.warnings) > 0
            /\ flat.warnings[1] = MsgDefaultPubkey
    /\ Has(options, "pubkey") /\ options.pubkey # Repeat("0", 64)
         => /\ flat.data.pubkey = options.pubkey
            /\ \/ ~Has(flat, "warnings")
               \/ \A i \in 1..Len(flat.warnings) :
                    flat.warnings[i] # MsgDefaultPubkey

\* C7 (amended): on a valid resource success is true whatever the warnings;
\* without a pubkey, or with the empty string as pubkey, the event's pubkey
\* is the all-zero 64-hex-digit placeholder and the result carries a
\* non-empty warnings list with the default-pubkey message; with a
\* non-empty pubkey different from the placeholder the event carries that
\* pubkey and no such warning is produced.
C7_DefaultPubkeyWarning ==
  Flattened /\ ValidResource(ambResource) =>
    /\ flat.success
    /\ ~Truthy(options, "pubkey")
         => /\ flat.data.pubkey = Repeat("0", 64)
            /\ Has(flat, "warnings")
            /\ Len(flat.warnings) > 0
            /\ flat.warnings[1] = MsgDefaultPubkey
    /\ Truthy(options, "pubkey") /\ options.pubkey # Repeat("0", 64)
         => /\ flat.data.pubkey = options.pubkey
            /\ \/ ~Has(flat, "warnings")
               \/ \A i \in 1..Len(flat.warnings) :
                    flat.warnings[i] # MsgDefaultPubkey

\* a valid resource converted with the empty string as pubkey: success,
\* the placeholder, and the warning
C7_Witness ==
  /\ Flattened
  /\ ValidResource(ambResource)
  /\ Has(options, "pubkey") /\ options.pubkey = ""
  /\ flat.success
  /\ flat.data.pubkey = DEFAULT_PUBKEY
  /\ Has(flat, "warnings")

RelationshipBases == {"hasPart", "isPartOf", "isBasedOn"}

ExplicitlyExcluded(o) ==
  Has(o, "includeRelationships") /\ o.includeRelationships = FALSE

\* C8: with includeRelationships explicitly false no hasPart:, isPartOf: or
\* isBasedOn: tag is emitted, whatever the resource holds, and every other
\* tag is the same as without the option; with includeRelationships true or
\* not given the relationship tags are emitted.
C8_RelationshipSuppression ==
  Flattened /\ flat.success =>
    LET tags == flat.data.tags[2]
        plain == ambToNostr(ambResource,
                            Restrict(options,
                                     DOMAIN options \ {"includeRelationships"}),
                            now).data.tags[2]
    IN
    /\ ExplicitlyExcluded(options)
         => /\ \A i \in 1..Len(tags) : BaseOf(tags[i]) \notin RelationshipBases
            /\ tags = SelectSeq(plain,
                                LAMBDA t : BaseOf(t) \notin RelationshipBases)
    /\ ~ExplicitlyExcluded(options)
         => \A F \in RelationshipBases :
              IdsInOrder(F, tags, ListOr(ambResource, F))

\* a resource with parts converted with includeRelationships false
C8_Witness ==
  /\ Flattened /\ flat.success
  /\ ExplicitlyExcluded(options)
  /\ Has(ambResource, "hasPart") /\ ambResource.hasPart # <<>>
  /\ TagsOfBase(flat.data.tags[2], "hasPart") = <<>>

\* the prefLabel mapping of a Concept as the unflattener represents it
LabelMap(c) ==
  LET langs == {c.prefLabel[i][1] : i \in 1..Len(c.prefLabel)} IN
  JObj([lang \in langs |->
          JStr((CHOOSE pair \in {c.prefLabel[i] : i \in 1..Len(c.prefLabel)} :
                  pair[1] = lang)[2])])

\* a Concept with an id and labels in distinct languages, none empty
Labelled(c) ==
  /\ Truthy(c, "id")
  /\ Has(c, "prefLabel") /\ c.prefLabel # <<>>
  /\ \A i, j \in 1..Len(c.prefLabel) :
       /\ c.prefLabel[i][1] # "" /\ c.prefLabel[i][2] # ""
       /\ i # j => c.prefLabel[i][1] # c.prefLabel[j][1]

\* C9: a Concept in about with labels in distinct languages (labels not
\* empty) flattens to exactly one about:prefLabel:<lang> tag per language,
\* carrying the label, and unflattening that event gives, for each Concept
\* of the list, an about entry whose prefLabel is a mapping with exactly
\* those language-to-label entries.
C9_MultiLanguageLabels ==
  /\ Flattened /\ flat.success /\ Has(ambResource, "about")
       /\ (\A k \in 1..Len(ambResource.about) : Labelled(ambResource.about[k]))
     => LET tags == flat.data.tags[2]
            labelTags == SelectSeq(tags,
                           LAMBDA t : Len(t[1]) > 1 /\ t[1][1] = "about"
                                      /\ t[1][2] = "prefLabel")
        IN labelTags
             = Concat([k \in 1..Len(ambResource.about) |->
                         [i \in 1..Len(ambResource.about[k].prefLabel) |->
                            <<<<"about", "prefLabel",
                                ambResource.about[k].prefLabel[i][1]>>,
                              ambResource.about[k].prefLabel[i][2]>>]])
  /\ Converted /\ unflat.success /\ Has(ambResource, "about")
       /\ ambResource.about # <<>>
       /\ (\A k \in 1..Len(ambResource.about) : Labelled(ambResource.about[k]))
     => /\ Has(unflat.data, "about")
        /\ unflat.data.about[1] = "arr"
        /\ Len(unflat.data.about[2]) = Len(ambResource.about)
        /\ \A k \in 1..Len(ambResource.about) :
             LET entry == unflat.data.about[2][k] IN
             /\ entry[1] = "obj"
             /\ Has(entry[2], "prefLabel")
             /\ entry[2].prefLabel = LabelMap(ambResource.about[k])

\* two Concepts, the first with labels in en, de and fr, after the round
\* trip
C9_Witness ==
  /\ Converted /\ unflat.success
  /\ Has(ambResource, "about") /\ Len(ambResource.about) = 2
  /\ ambResource.about[1].prefLabel
       = << <<"en", "Computer Science">>, <<"de", "Informatik">>,
            <<"fr", "Informatique">> >>
  /\ Len(TagsOfKey(flat.data.tags[2], <<"about", "prefLabel", "fr">>)) = 2
  /\ unflat.data.about[2][1][2].prefLabel
       = JObj([en |-> JStr("Computer Science"), de |-> JStr("Informatik"),
               fr |-> JStr("Informatique")])

\* the usable tags of one field, in the order of the event
FieldTags(e, base) ==
  SelectSeq(e.tags[2], LAMBDA t : Usable(t) /\ BaseOf(t) = base)

\* every tag of the field is <base>:<leaf> with a value
FlatEntries(q) ==
  q # <<>> /\ \A i \in 1..Len(q) : Len(q[i][1]) = 2 /\ q[i][2] # ""

\* the entries the tags of a field describe: a property that comes again
\* opens the next entry
RECURSIVE EntriesOf(_, _)
EntriesOf(q, acc) ==
  IF q = <<>> THEN acc
  ELSE LET leaf == Head(q)[1][2]
           v == JStr(Head(q)[2])
       IN IF acc = <<>> \/ leaf \in DOMAIN acc[Len(acc)]
          THEN EntriesOf(Tail(q), Append(acc, leaf :> v))
          ELSE EntriesOf(Tail(q),
                         [acc EXCEPT ![Len(acc)] = (leaf :> v) @@ @])

CreatorExample ==
  << <<<<"creator", "name">>, "John Doe">>,
     <<<<"creator", "type">>, "Person">>,
     <<<<"creator", "name">>, "Jane Smith">>,
     <<<<"creator", "type">>, "Person">> >>

\* C10: the reconstruction of a nested field yields a bare object when
\* exactly one entry is reconstructed and an ordered list when two or
\* more are; the tags creator:name, creator:type, creator:name,
\* creator:type yield a list of exactly two creator objects, in the order
\* of the tags, each with its own name and type.
C10_ArrayVsObjectCollapse ==
  Converted /\ unflat.success =>
    /\ LET q == FieldTags(event, "license")
           entries == EntriesOf(q, <<>>)
       IN FlatEntries(q) =>
            /\ Has(unflat.data, "license")
            /\ Len(entries) = 1 => unflat.data.license = JObj(entries[1])
            /\ Len(entries) >= 2 =>
                 unflat.data.license
                   = JArr([i \in 1..Len(entries) |-> JObj(entries[i])])
    /\ LET q == FieldTags(event, "creator")
           entries == EntriesOf(q, <<>>)
       IN FlatEntries(q) /\ Len(entries) >= 2 =>
            /\ Has(unflat.data, "creator")
            /\ unflat.data.creator
                 = JArr([i \in 1..Len(entries) |-> JObj(entries[i])])
    /\ FieldTags(event, "creator") = CreatorExample =>
         unflat.data.creator
           = JArr(<<JObj([name |-> JStr("John Doe"),
                         type |-> JStr("Person")]),
                    JObj([name |-> JStr("Jane Smith"),
                         type |-> JStr("Person")])>>)

\* the example has been converted, next to a single license
C10_Witness ==
  /\ Converted /\ unflat.success
  /\ FieldTags(event, "creator") = CreatorExample
  /\ Len(unflat.data.creator[2]) = 2
  /\ unflat.data.creator[2][2] = JObj([name |-> JStr("Jane Smith"),
                                      type |-> JStr("Person")])

\* one license:id tag gives a bare object
C10_WitnessSingle ==
  /\ Converted /\ unflat.success
  /\ Len(FieldTags(event, "license")) = 1
  /\ Has(unflat.data, "license")
  /\ unflat.data.license = JObj([id |-> JStr("cc-by")])

\* the event without its tag entries of fewer than 2 elements
WithoutMalformed(e) ==
  [e EXCEPT !.tags = JArr(SelectSeq(e.tags[2], LAMBDA t : Len(t) >= 2))]

HasMalformed(e) == \E i \in 1..Len(e.tags[2]) : Len(e.tags[2][i]) < 2

\* C11: tag entries with fewer than 2 elements are silently skipped: at
\* whatever positions they stand in the tags of an event, nostrToAmb gives
\* the result it gives for the event without those entries (so they never
\* make it fail).
C11_MalformedTagsSkipped ==
  Converted /\ KindIsAmb(event) /\ TagsIsList(event) =>
    unflat = nostrToAmb(WithoutMalformed(event), unflatOptions)

\* an event with malformed entries between its creator tags, converted
C11_Witness ==
  /\ Converted /\ unflat.success
  /\ Len(event.tags[2]) >= 6
  /\ Len(event.tags[2][5]) < 2
  /\ Len(event.tags[2][6]) = 2
  /\ Has(unflat.data, "creator")

ConversionErrorCodes ==
  {"INVALID_INPUT", "MISSING_REQUIRED_FIELD", "INVALID_FORMAT",
   "CONVERSION_FAILED", "VALIDATION_FAILED"}

\* a result with a success flag: data on success, a ConversionError else
IsResult(res) ==
  /\ Has(res, "success")
  /\ res.success \in BOOLEAN
  /\ res.success => Has(res, "data") /\ ~Has(res, "error")
  /\ ~res.success =>
       /\ Has(res, "error") /\ ~Has(res, "data")
       /\ res.error.name = "ConversionError"
       /\ res.error.code \in ConversionErrorCodes

\* inputs on which the body of ambToNostr raises a TypeError
FlattenRaises(r, o) ==
  \/ IsNull(r)
  \/ /\ Truthy(r, "id") /\ Truthy(r, "name")
     /\ IsNull(o) \/ ThrowsInTags(r)

\* inputs on which the body of nostrToAmb raises a TypeError: a null event,
\* or a tag list of an AMB event holding a tag whose key is not a string
UnflattenRaises(e) ==
  \/ IsNull(e)
  \/ /\ KindIsAmb(e) /\ TagsIsList(e)
     /\ \E i \in 1..Len(e.tags[2]) :
          Len(e.tags[2][i]) >= 2 /\ e.tags[2][i][1] = NotAString

\* C12: neither ambToNostr nor nostrToAmb throws across its boundary: for
\* every input, ill-shaped ones included, each returns a result with a
\* success flag; an internal failure that is not a ConversionError is
\* returned as success = false with code CONVERSION_FAILED, and a
\* ConversionError is returned unchanged, with its own code.
C12_NeverThrows ==
  /\ Flattened /\ ambResource # NoResource =>
       /\ IsResult(flat)
       /\ FlattenRaises(ambResource, options) =>
            ~flat.success /\ flat.error.code = "CONVERSION_FAILED"
       /\ ~IsNull(ambResource) /\ ~Truthy(ambResource, "id") =>
            flat.error = ConversionError(MsgNoId, "MISSING_REQUIRED_FIELD")
       /\ ~IsNull(ambResource) /\ Truthy(ambResource, "id")
            /\ ~Truthy(ambResource, "name") =>
            flat.error = ConversionError(MsgNoName, "MISSING_REQUIRED_FIELD")
  /\ Converted =>
       /\ IsResult(unflat)
       /\ UnflattenRaises(event) =>
            ~unflat.success /\ unflat.error.code = "CONVERSION_FAILED"

\* a resource whose creator list holds null has been given to ambToNostr,
\* which returned CONVERSION_FAILED
C12_Witness ==
  /\ Flattened
  /\ ~IsNull(ambResource) /\ ThrowsInTags(ambResource)
  /\ Has(flat, "success") /\ ~flat.success
  /\ flat.error.code = "CONVERSION_FAILED"

\* an event with a tag whose key is a number has been given to nostrToAmb
C12_WitnessEvent ==
  /\ Converted
  /\ ~IsNull(event) /\ UnflattenRaises(event)
  /\ ~unflat.success /\ unflat.error.code = "CONVERSION_FAILED"

\* C13: on every successful nostrToAmb result the resource satisfies the
\* AMB invariant: id is a non-empty string, name is a non-empty string and
\* type is a non-empty list, for every tag list, also when a singleton key
\* such as name occurs more than once or with a colon-delimited sub-path.
C13_AmbInvariant ==
  Converted /\ unflat.success =>
    /\ unflat.data.id[1] = "str" /\ unflat.data.id[2] # ""
    /\ unflat.data.name[1] = "str" /\ unflat.data.name[2] # ""
    /\ unflat.data.type[1] = "arr" /\ unflat.data.type[2] # <<>>

\* what the code returns for two name tags: success, with a list as name
C13_NameIsList ==
  Converted /\ unflat.success
  /\ event.tags[2] = <<DTag, TypeTag, NameTag, <<<<"name">>, "M">> >>
    => unflat.data.name = JArr(<<JStr("N"), JStr("M")>>)

DValue(result) == TagsOfKey(result.data.tags[2], <<"d">>)[1][2]

\* C14: flattening is deterministic: for a fixed resource and fixed options
\* with an explicit timestamp, two calls of ambToNostr, whenever they are
\* made, return identical events (same tags element for element, same d
\* value, pubkey, created_at, kind and content); and two resources with
\* different ids give different d tag values.
C14_Deterministic ==
  Flattened /\ ambResource # NoResource /\ flat.success =>
    /\ Has(options, "timestamp") =>
         \A clock \in Clock :
           ambToNostr(ambResource, options, clock).data = flat.data
    /\ \A other \in FullResources :
         other.id # ambResource.id =>
           DValue(ambToNostr(other, options, now)) # DValue(flat)

\* C15: for every timestamp value supplied in the options (any
\* unix-seconds number, 0 included) the event's created_at equals that
\* value; the wall clock is used only when no timestamp is supplied.
C15_TimestampHonoured ==
  Flattened /\ ambResource # NoResource /\ flat.success =>
    /\ Has(options, "timestamp") => flat.data.created_at = options.timestamp
    /\ ~Has(options, "timestamp") => flat.data.created_at = now

IsTagList(e) == Has(e, "tags") /\ e.tags[1] = "arr"

NoUsableTag(e) ==
  \A i \in 1..Len(e.tags[2]) : Len(e.tags[2][i]) < 2

\* C17 (as stated): an event of kind 30142 whose tags are empty or absent
\* after removing malformed entries (the empty list, a list of only entries
\* with fewer than 2 elements, or no tags field) fails with
\* MISSING_REQUIRED_FIELD because no d tag is found.
C17_EmptyOrAbsentTags ==
  Converted /\ ambResource = NoResource /\ KindIsAmb(event) =>
    /\ ~Has(event, "tags")
         => FailsWith(unflat, "MISSING_REQUIRED_FIELD", MsgMissingId)
    /\ IsTagList(event) /\ NoUsableTag(event)
         => FailsWith(unflat, "MISSING_REQUIRED_FIELD", MsgMissingId)

\* C17 (amended): an event of kind 30142 whose tags list is empty, or holds
\* only entries with fewer than 2 elements, fails with
\* MISSING_REQUIRED_FIELD naming id (no d tag is found); an event of kind
\* 30142 with no tags field fails with INVALID_FORMAT.
C17_EmptyTagsMissingId ==
  Converted /\ ambResource = NoResource /\ KindIsAmb(event) =>
    /\ ~Has(event, "tags") => FailsWith(unflat, "INVALID_FORMAT", MsgTags)
    /\ IsTagList(event) /\ NoUsableTag(event)
         => FailsWith(unflat, "MISSING_REQUIRED_FIELD", MsgMissingId)

\* a list of two malformed entries and nothing else has been converted
C17_Witness ==
  /\ Converted /\ KindIsAmb(event) /\ IsTagList(event)
  /\ Len(event.tags[2]) = 2 /\ NoUsableTag(event)
  /\ FailsWith(unflat, "MISSING_REQUIRED_FIELD", MsgMissingId)

\* the empty list has been converted
C17_WitnessEmpty ==
  /\ Converted /\ KindIsAmb(event) /\ IsTagList(event)
  /\ event.tags[2] = <<>>
  /\ FailsWith(unflat, "MISSING_REQUIRED_FIELD", MsgMissingId)

\* a reconstructed field as a list: the list itself, or the one bare object
AsList(v) == IF v[1] = "arr" THEN v[2] ELSE <<v>>

\* the type labels a reconstructed entry carries, as a list
TypeLabels(m) ==
  IF ~Has(m, "type") THEN <<>>
  ELSE IF m.type[1] = "arr"
  THEN [i \in 1..Len(m.type[2]) |-> m.type[2][i][2]]
  ELSE <<m.type[2]>>

\* the entry carries the id, the name and all type labels of p
PartMatches(entry, p) ==
  /\ entry[1] = "obj"
  /\ Has(entry[2], "id") /\ entry[2].id = JStr(p.id)
  /\ Truthy(p, "name") => Has(entry[2], "name") /\ entry[2].name = JStr(p.name)
  /\ TypeLabels(entry[2]) = ListOr(p, "type")

\* C18: every entry of a relationship list is independently
\* reconstructible: for a resource whose hasPart (or isPartOf) list has n
\* entries, each with an id, an optional name and a type list of one or
\* more labels, nostrToAmb(ambToNostr(r)) yields exactly n hasPart
\* (isPartOf) entries in the same order, the i-th carrying the id, the name
\* and all type labels of the i-th source entry.
C18_PartsRoundTrip ==
  Converted /\ ambResource # NoResource /\ unflat.success
    /\ ~ExplicitlyExcluded(options) =>
    \A F \in {"hasPart", "isPartOf"} :
      Has(ambResource, F) /\ ambResource[F] # <<>> =>
        /\ Has(unflat.data, F)
        /\ LET got == AsList(unflat.data[F]) IN
           /\ Len(got) = Len(ambResource[F])
           /\ \A i \in 1..Len(got) : PartMatches(got[i], ambResource[F][i])

\* the fields of a creator that the round trip is to give back
CreatorKeys(c) ==
  {"name", "type"}
    \cup {f \in {"id", "honorificPrefix"} : Truthy(c, f)}
    \cup (IF Has(c, "affiliation")
             /\ \E a \in {"name", "type", "id"} : Truthy(c.affiliation, a)
          THEN {"affiliation"} ELSE {})

\* the creator c as a reconstructed object, under the given name
CreatorObject(c, name) ==
  JObj([k \in CreatorKeys(c) |->
    IF k = "name" THEN JStr(name)
    ELSE IF k = "affiliation"
    THEN JObj([a \in {a \in {"name", "type", "id"} :
                       Truthy(c.affiliation, a)} |->
                JStr(c.affiliation[a])])
    ELSE JStr(c[k])])

\* the name of c preceded by its honorific prefix and a space, if it has one
PrefixedName(c) ==
  IF Has(c, "honorificPrefix") /\ c.honorificPrefix # ""
  THEN c.honorificPrefix \o " " \o c.name
  ELSE c.name

\* a round trip of a resource with creators has taken place
CreatorsRoundTripped ==
  /\ Converted /\ ambResource # NoResource /\ unflat.success
  /\ Has(ambResource, "creator") /\ ambResource.creator # <<>>

\* C19 as stated: for a resource with n creators,
\* nostrToAmb(ambToNostr(r)).creator is a list of exactly n entries in
\* source order and the i-th entry has the same name, type, id,
\* honorificPrefix and affiliation as the i-th source creator.
C19_CreatorRoundTripExact ==
  CreatorsRoundTripped =>
    /\ Has(unflat.data, "creator")
    /\ unflat.data.creator =
         JArr([i \in 1..Len(ambResource.creator) |->
                 CreatorObject(ambResource.creator[i],
                               ambResource.creator[i].name)])

\* C19, amended: for a resource with n creators,
\* nostrToAmb(ambToNostr(r)).creator is a list of exactly n entries in
\* source order and the i-th entry has the same type, id, honorificPrefix
\* and affiliation as the i-th source creator; its name is the source name,
\* preceded by the honorific prefix and a space when the source creator has
\* a prefix.
C19_CreatorRoundTrip ==
  CreatorsRoundTripped =>
    /\ Has(unflat.data, "creator")
    /\ unflat.data.creator =
         JArr([i \in 1..Len(ambResource.creator) |->
                 CreatorObject(ambResource.creator[i],
                               PrefixedName(ambResource.creator[i]))])

\* two creators have made the round trip, the first with a prefix, an id
\* and an affiliation, the second with neither
C19_Witness ==
  /\ CreatorsRoundTripped
  /\ ambResource.creator = <<Person1, Person2>>
  /\ Has(unflat.data, "creator")
  /\ Len(unflat.data.creator[2]) = 2
  /\ unflat.data.creator[2][1][2].name = JStr("Dr. Ada")

\* the command has been invoked and its first step has run
Started == cli.step \in {"reading", "writing", "exited"}

\* the run has ended with an error line, nothing read, converted, signed
\* or written
FailedAtOnce ==
  /\ cli.step = "exited" /\ cli.exitCode = 1
  /\ cli.stderr # <<>> /\ cli.stderr[Len(cli.stderr)][1] = "error"
  /\ cli.trace = <<>>
  /\ cli.written = <<>>

\* C20: when both --nsec and --private-key are given, the command fails
\* with an error and exit code 1 before any input is read, any conversion
\* or signing is performed, or any output is written.
C20_KeysMutuallyExclusive ==
  Started /\ Has(cli.options, "nsec") /\ Has(cli.options, "privateKey") =>
    FailedAtOnce

\* the whole run of a command, from its invocation to its exit
Run(c, clock) ==
  LET a == Invoked(c)
      b == IF a.step = "reading" THEN readInput(a, clock) ELSE a
  IN IF b.step = "writing" THEN writeOutput(b) ELSE b

\* the options without --tags, --nsec and --private-key
WithoutAmbToNostrOptions(o) ==
  [Restrict(o, DOMAIN o \ {"nsec", "privateKey"}) EXCEPT !.tags = FALSE]

\* a warning whose text holds the given words has been printed
Warned(c, message) ==
  \E i \in 1..Len(c.stderr) : c.stderr[i] = <<"warning", message>>

\* the run is over and its direction argument meant nostr:amb
NostrToAmbRunEnded ==
  /\ cli.step = "exited"
  /\ parseDirection(cli.args.direction).ok
  /\ parseDirection(cli.args.direction).value = "nostr:amb"

\* C21: in direction nostr:amb the options --tags, --nsec and
\* --private-key, in any combination, are ignored with warnings: no key is
\* parsed, no event is signed, and the output written is exactly the AMB
\* resource that would be written without those options (a warning being
\* due for an option given with a value, once the run reaches the
\* conversion).
C21_OptionsIgnored ==
  NostrToAmbRunEnded =>
    LET plain == Run(Command(cli.args, WithoutAmbToNostrOptions(cli.options),
                             cli.source), now)
        seen(x) == \E i \in 1..Len(cli.trace) : cli.trace[i] = x
    IN
    /\ ~seen("parsePrivateKey") /\ ~seen("sign")
    /\ cli.written = plain.written
    /\ cli.exitCode = plain.exitCode
    /\ \E i \in 1..Len(plain.trace) : plain.trace[i] = "convert" =>
         /\ AnyKey(cli.options) =>
              Warned(cli, "--nsec and --private-key options are ignored for nostr:amb conversion")
         /\ cli.options.tags =>
              Warned(cli, "--tags option is ignored for nostr:amb conversion")

\* the leaf segment and the intermediate path of a collected tag
LeafOf(tag) == tag.key[Len(tag.key)]
PathOf(tag) == SubSeq(tag.key, 2, Len(tag.key) - 1)

\* the sub-object of m reached by the path exists and has the property
RECURSIVE HasLeafAt(_, _, _)
HasLeafAt(m, path, leaf) ==
  IF path = <<>> THEN leaf \in DOMAIN m
  ELSE /\ Head(path) \in DOMAIN m
       /\ m[Head(path)][1] = "obj"
       /\ HasLeafAt(m[Head(path)][2], Tail(path), leaf)

\* the object that holds nothing but the path and, at its end, the leaf
RECURSIVE OnlyLeaf(_, _, _)
OnlyLeaf(path, leaf, val) ==
  IF path = <<>> THEN leaf :> val
  ELSE Head(path) :> JObj(OnlyLeaf(Tail(path), leaf, val))

\* the tag is one the loop does not pass over for want of a value
HasValue(tag) == LeafOf(tag) # "" /\ tag.values[1] # ""

\* the value of the tag as a string, or as a one-language label
WrittenValues(tag) ==
  {JStr(tag.values[1])}
  \cup (IF LeafOf(tag) = "prefLabel"
        THEN {JObj(l :> JStr(tag.values[1])) : l \in {"de", "en"}}
        ELSE {})

\* the step of the loop on scan.tags[scan.i] opens a new object exactly
\* when the accumulator is non-empty and the leaf exists on the target
BoundaryStep ==
  LET tag == scan.tags[scan.i]
      old == scan.st
      new == scan'.st
      due == /\ DOMAIN old.cur # {}
             /\ HasLeafAt(old.cur, PathOf(tag), LeafOf(tag))
  IN
  /\ ~HasValue(tag) => new = old
  /\ HasValue(tag) /\ ~new.thrown =>
       /\ due => /\ new.objects = Append(old.objects, old.cur)
                 /\ \E val \in WrittenValues(tag) :
                      new.cur = OnlyLeaf(PathOf(tag), LeafOf(tag), val)
       /\ ~due => new.objects = old.objects
       /\ old.objects = <<>> /\ old.cur = EmptyObject => new.objects = <<>>

\* the return takes the finished objects and the non-empty accumulator
ReturnStep ==
  LET st == scan.st
      all == IF DOMAIN st.cur # {} THEN Append(st.objects, st.cur)
             ELSE st.objects
  IN ~st.thrown =>
       /\ ~scan'.result.thrown
       /\ scan'.result.value =
            IF Len(all) = 1 THEN JObj(all[1])
            ELSE JArr([i \in 1..Len(all) |-> JObj(all[i])])

\* C22: object-boundary detection: while scanning the collected tags of one
\* base key in order, a new object is started (the accumulator is appended
\* to the results and reset) exactly when the accumulator is non-empty and
\* the tag's leaf segment already exists on the target sub-object reached
\* by the tag's intermediate path; no boundary is raised for the first
\* tag; after a boundary the value is written into the freshly navigated
\* path of the new accumulator; a non-empty trailing accumulator is
\* appended at the end.
C22_BoundaryDetection ==
  [][/\ scan.step = "loop" /\ scan'.step = "loop" => BoundaryStep
     /\ scan.step = "loop" /\ scan'.step = "returned" => ReturnStep]_vars

\* a loop has returned three objects, the last opened by a collision on a
\* nested leaf
C22_Witness ==
  /\ scan.step = "returned"
  /\ scan.tags = <<[key |-> <<"about", "id">>, values |-> <<"c1">>],
                   [key |-> <<"about", "id">>, values |-> <<"c2">>],
                   [key |-> <<"about", "inScheme", "id">>, values |-> <<"s1">>],
                   [key |-> <<"about", "inScheme", "id">>, values |-> <<"s1">>]>>
  /\ ~scan.result.thrown
  /\ scan.result.value[1] = "arr"
  /\ Len(scan.result.value[2]) = 3

\* the value found in m at the end of the path, under the leaf
RECURSIVE ValueAt(_, _, _)
ValueAt(m, path, leaf) ==
  IF path = <<>> THEN m[leaf]
  ELSE ValueAt(m[Head(path)][2], Tail(path), leaf)

\* tags[j] is a tag <parent path of tags[i]>:leaf with a value
SiblingAt(tags, i, j, leaf) ==
  /\ j \in 1..Len(tags)
  /\ tags[j].key = SubSeq(tags[i].key, 1, Len(tags[i].key) - 1) \o <<leaf>>
  /\ tags[j].values[1] # ""

\* the step on a prefLabel tag writes the one-language mapping when a
\* sibling inLanguage tag with a value stands next to it, the flat label
\* when none does; the step on an inLanguage tag next to its prefLabel
\* writes nothing
PairingStep ==
  LET tags == scan.tags
      i == scan.i
      tag == tags[i]
      new == scan'.st
      langs == {j \in {i - 1, i + 1} : SiblingAt(tags, i, j, "inLanguage")}
  IN
  HasValue(tag) /\ ~new.thrown =>
    /\ LeafOf(tag) = "prefLabel" =>
         LET written == ValueAt(new.cur, PathOf(tag), "prefLabel") IN
         /\ langs # {} =>
              \E j \in langs :
                written = JObj(tags[j].values[1] :> JStr(tag.values[1]))
         /\ langs = {} => written = JStr(tag.values[1])
    /\ LeafOf(tag) = "inLanguage"
         /\ (\E j \in {i - 1, i + 1} : SiblingAt(tags, i, j, "prefLabel")) =>
         new = scan.st

\* C23: prefLabel/inLanguage pairing: when a tag's leaf segment is
\* prefLabel and a sibling <same parent path>:inLanguage tag with a
\* non-empty value lies within one position before or after it, prefLabel
\* is written as the single-key mapping {language: label}; when no such tag
\* lies within that window, prefLabel is written as the flat label string;
\* and the paired inLanguage tag, whether it stands immediately before or
\* immediately after the prefLabel tag, is consumed and does not appear as
\* an inLanguage property of the reconstructed object.
C23_PrefLabelPairing ==
  [][scan.step = "loop" /\ scan'.step = "loop" => PairingStep]_vars

\* the fields the AMB schema wants as lists
AlwaysLists ==
  {"type", "inLanguage", "about", "creator", "contributor",
   "learningResourceType", "audience", "publisher", "funder"}

\* the tags of the event that are neither malformed nor d or t tags and
\* whose key starts with the base key
EntriesFor(e, base) ==
  SelectSeq(e.tags[2],
            LAMBDA tag : /\ Len(tag) >= 2
                         /\ tag[1] \notin {<<"d">>, <<"t">>}
                         /\ tag[1][1] = base)

\* the base keys of the entries of the event
EntryBases(e) ==
  {e.tags[2][i][1][1] : i \in {i \in 1..Len(e.tags[2]) :
                                 /\ Len(e.tags[2][i]) >= 2
                                 /\ e.tags[2][i][1] \notin {<<"d">>, <<"t">>}}}

\* v is the bare value of the single entry: its string under a flat key, an
\* object under a nested key
BareValueOf(v, entry) ==
  IF Len(entry[1]) = 1 THEN v = JStr(entry[2]) ELSE v[1] = "obj"

\* an event has been converted with success
Unflattened ==
  /\ pc = "done" /\ Has(unflat, "success") /\ unflat.success
  /\ ~IsNull(event) /\ IsTagList(event)

ValuesWithKey(e, k) ==
  LET hits == SelectSeq(e.tags[2],
                        LAMBDA tag : /\ Len(tag) >= 2
                                     /\ tag[1] = <<k>>
                                     /\ tag[2] # "")
  IN [i \in 1..Len(hits) |-> hits[i][2]]

\* C25: duplicate d tags follow last-write-wins: when an event carries
\* several d tags with non-empty values, the id of the reconstructed
\* resource is the value of the last of them in tag order.
C25_LastIdWins ==
  Unflattened /\ Len(ValuesWithKey(event, "d")) >= 2 =>
    LET ids == ValuesWithKey(event, "d") IN
    unflat.data.id = JStr(ids[Len(ids)])

\* C26: the keywords list of a reconstructed resource is exactly the
\* sequence of values of the event's t tags in encounter order (duplicates
\* kept), whatever other tags are interleaved between them, and the
\* keywords field is present only when that sequence is non-empty.
C26_KeywordsFromTTags ==
  Unflattened =>
    LET ks == ValuesWithKey(event, "t") IN
    IF ks = <<>> THEN ~Has(unflat.data, "keywords")
    ELSE /\ Has(unflat.data, "keywords")
         /\ unflat.data.keywords = JArr([i \in 1..Len(ks) |-> JStr(ks[i])])

\* C28: fields derived from reserved keys or fixed by the algorithm cannot
\* be overridden by ordinary tags: on every successful nostrToAmb result,
\* id is the value of a d tag of the event, keywords (if present) is the
\* list of t tag values, and @context is the fixed AMB context URI plus the
\* language object, even when the event also carries tags whose key is
\* literally id, keywords or @context.
C28_ReservedFieldsNotOverridden ==
  Unflattened =>
    LET ids == ValuesWithKey(event, "d")
        ks == ValuesWithKey(event, "t")
    IN
    /\ \E i \in 1..Len(ids) : unflat.data.id = JStr(ids[i])
    /\ Has(unflat.data, "keywords") =>
         unflat.data.keywords = JArr([i \in 1..Len(ks) |-> JStr(ks[i])])
    /\ unflat.data["@context"] =
         JArr(<<JStr("https://w3id.org/kim/amb/context.jsonld"),
                JObj("@language" :> JStr(DefaultLanguage(unflatOptions)))>>)

\* C29: the reserved keys never leak into the output: for every tag list
\* (including d or t tags whose value is the empty string, and tags with
\* more than two elements), the resource built by unflattening has no
\* property named d and no property named t.
C29_ReservedKeysDoNotLeak ==
  Unflattened => ~Has(unflat.data, "d") /\ ~Has(unflat.data, "t")

\* every property of a is a property of b with the same value, objects
\* compared property by property
RECURSIVE Extends(_, _)
Extends(a, b) ==
  \A k \in DOMAIN a :
    /\ k \in DOMAIN b
    /\ IF a[k][1] = "obj"
       THEN b[k][1] = "obj" /\ Extends(a[k][2], b[k][2])
       ELSE b[k] = a[k]

\* the number of strings an object holds, at any depth
RECURSIVE LeafCount(_)
LeafCount(m) ==
  IF DOMAIN m = {} THEN 0
  ELSE LET k == CHOOSE k \in DOMAIN m : TRUE
           rest == [j \in DOMAIN m \ {k} |-> m[j]]
       IN (IF m[k][1] = "obj" THEN LeafCount(m[k][2]) ELSE 1)
          + LeafCount(rest)

RECURSIVE LeafCountAll(_)
LeafCountAll(objects) ==
  IF objects = <<>> THEN 0
  ELSE LeafCount(Head(objects)) + LeafCountAll(Tail(objects))

\* the objects of a returned value
ReturnedObjects(v) ==
  IF v[1] = "arr" THEN [i \in 1..Len(v[2]) |-> v[2][i][2]] ELSE <<v[2]>>

\* the step adds the value of the tag, and nothing else, to the object
\* being built, or closes that object as it is and opens one that holds
\* the value only
Contributes(tag, old, new) ==
  /\ ~new.thrown
  /\ \/ /\ new.objects = old.objects
        /\ Extends(old.cur, new.cur)
        /\ LeafCount(new.cur) = LeafCount(old.cur) + 1
     \/ /\ new.objects = Append(old.objects, old.cur)
        /\ LeafCount(new.cur) = 1
  /\ HasLeafAt(new.cur, PathOf(tag), LeafOf(tag))
  /\ ValueAt(new.cur, PathOf(tag), LeafOf(tag)) \in WrittenValues(tag)

\* an inLanguage tag whose parent already has a prefLabel
IsSkippedLanguage(tag, old) ==
  /\ LeafOf(tag) = "inLanguage"
  /\ HasLeafAt(old.cur, PathOf(tag), "prefLabel")

\* the return hands over every string the loop has stored
NothingDropped ==
  /\ ~scan'.result.thrown
  /\ LeafCountAll(ReturnedObjects(scan'.result.value)) =
       LeafCountAll(scan.st.objects) + LeafCount(scan.st.cur)

Exited == cli.step = "exited"

\* a key is given for a run whose direction argument means amb:nostr
KeyGiven ==
  /\ parseDirection(cli.args.direction).ok
  /\ parseDirection(cli.args.direction).value = "amb:nostr"
  /\ \/ Has(cli.options, "nsec") /\ cli.options.nsec # ""
     \/ Has(cli.options, "privateKey") /\ cli.options.privateKey # ""

\* the steps of a run that writes, in their order
StepsWithoutKey == <<"readInput", "parseJSON", "convert", "writeOutput">>
StepsWithKey ==
  <<"readInput", "parseJSON", "parsePrivateKey", "convert", "sign",
    "writeOutput">>

\* the steps done are the first ones of the full list, in its order
IsPrefix(s, t) == Len(s) <= Len(t) /\ s = SubSeq(t, 1, Len(s))

\* the steps a run is to go through
DueSteps == IF KeyGiven THEN StepsWithKey ELSE StepsWithoutKey

\* the run has ended with an error line and nothing written
FailedUnwritten ==
  /\ cli.exitCode = 1
  /\ cli.written = <<>>
  /\ cli.stderr # <<>> /\ cli.stderr[Len(cli.stderr)][1] = "error"

\* what an amb:nostr run writes: the event converted from the input, with
\* id and signature when a key is given, or the tags of that event
WrittenIsTheEvent ==
  LET w == cli.written[1][2].json
      converted == ambToNostr(cli.source.json, NoOptions, now).data
  IN
  IF cli.options.tags THEN w = converted.tags
  ELSE /\ w.tags = converted.tags
       /\ w.kind = converted.kind
       /\ w.created_at = converted.created_at
       /\ IF KeyGiven THEN Has(w, "sig") /\ Has(w, "id")
          ELSE w = converted

\* C27: in every run of the convert command, output is written at most
\* once and only after input reading, JSON parsing, conversion and, when a
\* key is given for amb:nostr, signing have all succeeded; every failure at
\* an earlier step ends the run with an error message and exit code 1
\* without anything having been written; with a key the event is signed
\* after conversion and before output, and with --tags the written value
\* is the tags array of that same event.
C27_WriteLast ==
  cli.step # "none" =>
    /\ Len(cli.written) <= 1
    /\ IsPrefix(cli.trace, DueSteps)
    /\ cli.written # <<>> => cli.trace = DueSteps /\ cli.exitCode = 0
    /\ Exited =>
         \/ FailedUnwritten
         \/ cli.exitCode = 0 /\ Len(cli.written) = 1
    /\ cli.written # <<>> /\ cli.direction = "amb:nostr" => WrittenIsTheEvent

\* a run with a key and --tags has written the tags of the signed event
C27_Witness ==
  /\ Exited /\ cli.exitCode = 0
  /\ KeyGiven /\ cli.options.tags
  /\ cli.trace = StepsWithKey
  /\ Len(cli.written) = 1
  /\ cli.written[1][2].json[1] = "arr"

====
